---- MODULE Spec2Model ----
(***************************************************************************)
(* Model of the StreamDeck URL switcher's request/response broker:         *)
(* ExtensionServer in streamdeck-plugin/.../plugin.js (the listener, its   *)
(* pending-request table, request ids and per-request timeout timers),     *)
(* with the peer on the socket free to send any envelope at any time;      *)
(* and of the browser agent in chrome-extension/background.js: the dialer  *)
(* (connectWebSocket, the reconnect timer, the keep-alive interval) and    *)
(* handlePluginMessage, with the plugin as its peer; and of the native     *)
(* messaging host in native-host/native-host.js: its forwarding of client  *)
(* requests to Chrome under its own ids and its sweep of stale entries;    *)
(* and of the agent's URL matching (normalizeURL, findTabByURL) and its    *)
(* switchToURL over a directory of tabs; and of the plugin's buttons       *)
(* (URLSwitcherPlugin in plugin.js): titles and key-press feedback.        *)
(***************************************************************************)
EXTENDS Integers, Sequences, FiniteSets, TLC

\* ------------------------------------------------------------------ bounds
\* Calls of sendToExtension made over the run.
MaxCalls == 2
\* Peer sockets the listener accepts over the run.
MaxSockets == 2

\* WebSocket objects the agent creates over the run.
MaxDials == 3
\* Requests the plugin sends to the agent over the run.
MaxReqs == 2

\* WebSocket clients the native host accepts over the run.
MaxClients == 2
\* Requests the native host forwards to Chrome over the run.
MaxForwards == 2
\* The native host's clock stops after this many units of 10 seconds.
MaxClock == 7

\* Pieces (protocol, www., /, #, letters) a tab's URL is put together from.
MaxChunks == 3
\* Pieces a target URL is put together from.
MaxTargetChunks == 2

\* Tabs in the directory chrome.tabs.query returns.
MaxTabs == 3

\* Key presses over the run.
MaxPresses == 1

\* Native messages on the host's stdin over the run.
MaxFrames == 2

\* Times each listener process is launched over the run.
MaxLaunches == 2

\* Keep-alive pings the agent sends over the run.
MaxPings == 2

Calls == 1..MaxCalls
Sockets == 1..MaxSockets
Dials == 1..MaxDials
Reqs == 1..MaxReqs
Clients == 1..MaxClients
Forwards == 1..MaxForwards
Presses == 1..MaxPresses
Pings == 1..MaxPings

\* No socket (extensionSocket === null) / no id on an envelope (id undefined).
NoSocket == 0
NoId == 0

\* ------------------------------------------------------------------- state
VARIABLES
  sockState,        \* readyState of each accepted ws, and whether it was accepted yet
  extensionSocket,  \* ExtensionServer.extensionSocket (NoSocket = null)
  pendingRequests,  \* ExtensionServer.pendingRequests: id -> call whose resolve/reject it holds
  requestId,        \* ExtensionServer.requestId
  timers,           \* setTimeout closures not yet fired, in firing order: <<[id, call]>>
  callState,        \* per call of sendToExtension: "none" | "failedFast" | "sent"
  callId,           \* the id the call allocated (NoId if none)
  callSock,         \* the socket the call's envelope was transmitted on
  conts,            \* per call: the invocations of its resolve/reject, in order
  transmitted,      \* per socket: ids of the request envelopes sent on it
  notified,         \* the value onConnectionChange was last called with
  lastRx            \* when the step just taken was handleExtensionMessage: the id and
                    \* action of its envelope and the envelopes it transmitted in
                    \* reply; NoRx after any other handler

vars == <<sockState, extensionSocket, pendingRequests, requestId, timers,
          callState, callId, callSock, conts, transmitted,
          notified, lastRx>>

\* The browser agent (background.js).
VARIABLES
  readyState,       \* per WebSocket object the agent created: its readyState
  websocket,        \* the global `websocket` (NoSocket = null)
  reconnectTimer,   \* the global `reconnectTimer` holds a timer handle
  timeouts,         \* setTimeout callbacks of scheduleReconnect not yet fired or cleared
  keepAliveTimer,   \* the global `keepAliveTimer` holds an interval handle
  intervals,        \* setInterval timers of startKeepAlive not yet cleared
  pings,            \* for each ping sent: the readyState its socket had
  pongDue,          \* the plugin has a pong to send back
  reqAction,        \* per request id of the plugin: the action it was sent with
  reqState,         \* per request id: "none" | "awaiting" | "done" | "threw"
  responses         \* the response envelopes handlePluginMessage got transmitted

agentVars == <<readyState, websocket, reconnectTimer, timeouts, keepAliveTimer,
               intervals, pings, pongDue, reqAction, reqState, responses>>

\* The native messaging host (native-host.js).
VARIABLES
  clientState,      \* per WebSocket client of the host: "idle" | "open" | "closed"
  hostPending,      \* the host's pendingRequests: id -> [ws, originalId, timestamp]
  hostRequestId,    \* the host's requestId
  toChrome,         \* the ids of the messages written to stdout
  delivered,        \* per client: the envelopes the host sent it
  clock,            \* Date.now(), in units of 10 seconds
  sweepDue          \* the sweep interval has elapsed and its callback not yet run

hostVars == <<clientState, hostPending, hostRequestId, toChrome, delivered,
              clock, sweepDue>>

\* The agent's URL matching (background.js, findTabByURL).
VARIABLES
  urlPhase,         \* where findTabByURL stands: "idle" | "searching" | "passed" | "found"
  targetURL,        \* its argument
  normalizedTarget, \* normalizeURL(targetURL)
  tabUrl,           \* tab.url of the tab the loop looked at last
  normalizedTab,    \* normalizeURL(tab.url)
  matched           \* that tab was returned

urlVars == <<urlPhase, targetURL, normalizedTarget, tabUrl, normalizedTab, matched>>

\* The agent's switchToURL for one request of the plugin (background.js).
VARIABLES
  swPhase,          \* "idle" | "querying" | "acting" | "sent" | "dropped" | "threw"
  swTarget,         \* message.url
  directory,        \* the tabs getAllTabs returned, in order
  existingTab,      \* what findTabByURL returned (NoTab = null)
  collaboratorCalls,\* the calls of activateTab and openURL made, in order
  swSent            \* the response envelope transmitted (NoResponse = none)

switchVars == <<swPhase, swTarget, directory, existingTab, collaboratorCalls, swSent>>

\* The plugin's buttons (URLSwitcherPlugin in plugin.js).
VARIABLES
  extLink,          \* extensionServer's current socket: "none" | "open" | "closing"
  activeContexts,   \* URLSwitcherPlugin.activeContexts
  actionSettings,   \* URLSwitcherPlugin.actionSettings: context -> settings
  titled,           \* the setTitle events the step just taken sent: {[context, title]}
  presses           \* per key press: its context, how its request ended and the
                    \* showOk / showAlert events sent for it

buttonVars == <<extLink, activeContexts, actionSettings, titled, presses>>

\* Native messaging frames (native-host.js) and the plugin's inbound messages.
VARIABLES
  texts,         \* the JSON texts the peer has sent, in order
  wire,          \* the bytes of their frames not yet given to the stdin handler
  inputBuffer,   \* native-host.js inputBuffer
  handled,       \* the messages handed to handleChromeMessage, in order
  uncaught,        \* the last run of the stdin handler ended in an uncaught exception
  written,       \* the message last given to writeNativeMessage
  stdout,        \* the buffer writeNativeMessage wrote for it
  wsNext,        \* the next of the texts to arrive at the plugin's socket
  wsHandled      \* the messages the plugin handed to handleExtensionMessage

frameVars ==
  <<texts, wire, inputBuffer, handled, uncaught, written, stdout, wsNext, wsHandled>>

\* The two listener processes and the port both of them bind.
VARIABLES
  portOwner,     \* who holds port 9334: "free" | "other" | "plugin" | "host"
  procPhase,     \* per process: "off" | "connecting" | "binding" | "listening" | "failed"
  started,       \* ExtensionServer.started in the plugin process
  procLog,       \* per process: what it logged about its listener, in order
  launches       \* per process: how often it has been launched

listenVars == <<portOwner, procPhase, started, procLog, launches>>

\* The plugin and the agent at the two ends of one WebSocket connection.
VARIABLES
  wireOpen,      \* the connection is open at both ends
  toPlugin,      \* envelopes in flight from the agent to the plugin
  toAgent,       \* envelopes in flight from the plugin to the agent
  wirePending,   \* the ids in the plugin's pendingRequests
  wireSettled,   \* the requests the plugin's message handler resolved or rejected
  wireNextId,    \* the plugin's requestId
  pingsSent,     \* the keep-alive pings the agent has sent
  caused         \* per ping: the envelopes sent because of it, in order

wireVars == <<wireOpen, toPlugin, toAgent, wirePending, wireSettled, wireNextId,
              pingsSent, caused>>

\* What the handlers of each component leave alone.
outsideBroker ==
  <<agentVars, hostVars, urlVars, switchVars, buttonVars,
    frameVars, listenVars, wireVars>>
outsideAgent ==
  <<vars, hostVars, urlVars, switchVars, buttonVars,
    frameVars, listenVars, wireVars>>
outsideHost ==
  <<vars, agentVars, urlVars, switchVars, buttonVars,
    frameVars, listenVars, wireVars>>
outsideUrl ==
  <<vars, agentVars, hostVars, switchVars, buttonVars,
    frameVars, listenVars, wireVars>>
outsideSwitch ==
  <<vars, agentVars, hostVars, urlVars, buttonVars,
    frameVars, listenVars, wireVars>>
outsideButtons ==
  <<vars, agentVars, hostVars, urlVars, switchVars,
    frameVars, listenVars, wireVars>>
outsideFrames ==
  <<vars, agentVars, hostVars, urlVars, switchVars,
    buttonVars, listenVars, wireVars>>
outsideListen ==
  <<vars, agentVars, hostVars, urlVars, switchVars,
    buttonVars, frameVars, wireVars>>
outsideWire ==
  <<vars, agentVars, hostVars, urlVars, switchVars,
    buttonVars, frameVars, listenVars>>

\* The `error` field of an inbound envelope: absent, present but falsy (""),
\* or a non-empty string.
ErrorFields == {"absent", "falsy", "truthy"}

\* Inbound envelopes a peer can put on the socket.
Envelopes ==
  [id : 0..MaxCalls, action : {"other"}, error : ErrorFields]
    \cup [id : 0..MaxCalls, action : {"ping"}, error : {"absent"}]

NoEnv == [id |-> NoId, action |-> "none", error |-> "absent"]

\* The step just taken was not the message handler.
NoRx == [id |-> NoId, action |-> "none", replies |-> <<>>]

\* `{ action: 'pong' }`: the keep-alive answer, an envelope without id.
Pong == [id |-> NoId, action |-> "pong"]

\* Variant: the readyState test forgotten, a socket reference is enough.
isConnectedSocketOnly == extensionSocket # NoSocket

\* isConnected(): a socket is held and its readyState is OPEN.
isConnected ==
  /\ extensionSocket # NoSocket
  /\ sockState[extensionSocket] = "open"

\* The truthiness test `if (message.error)`.
Truthy(e) == e = "truthy"

\* `this.onConnectionChange(v)`.
Notify(v) == IF v THEN "true" ELSE "false"

\* Map.prototype.set / delete on pendingRequests.
MapSet(m, k, v) == [x \in (DOMAIN m) \cup {k} |-> IF x = k THEN v ELSE m[x]]
MapDelete(m, k) == [x \in (DOMAIN m) \ {k} |-> m[x]]

\* A continuation of call c is invoked.
Invoke(c, kind, env) == [conts EXCEPT ![c] = Append(@, [kind |-> kind, env |-> env])]

Init ==
  /\ sockState = [s \in Sockets |-> "idle"]
  /\ extensionSocket = NoSocket
  /\ pendingRequests = <<>>
  /\ requestId = 0
  /\ timers = <<>>
  /\ callState = [c \in Calls |-> "none"]
  /\ callId = [c \in Calls |-> NoId]
  /\ callSock = [c \in Calls |-> NoSocket]
  /\ conts = [c \in Calls |-> <<>>]
  /\ transmitted = [s \in Sockets |-> {}]
  /\ notified = "none"
  /\ lastRx = NoRx

\* ------------------------------------------------------- listener handlers

\* Variant: the previous peer is left as it is when a new one is accepted.
PreviousOpenNever(t) == FALSE

\* `this.extensionSocket && this.extensionSocket.readyState === WebSocket.OPEN`,
\* for socket t at the time a new peer is accepted.
PreviousOpen(t) == t = extensionSocket /\ sockState[t] = "open"

\* wss 'connection': a new peer is accepted; a previous open peer is closed.
Connection(s) ==
  /\ UNCHANGED outsideBroker
  /\ sockState[s] = "idle"
  /\ \A t \in Sockets : t < s => sockState[t] # "idle"
  /\ sockState' = [t \in Sockets |->
                     IF t = s THEN "open"
                     ELSE IF PreviousOpen(t)
                          THEN "closingLocal"
                          ELSE sockState[t]]
  /\ extensionSocket' = s
  /\ notified' = Notify(TRUE)
  /\ lastRx' = NoRx
  /\ UNCHANGED <<pendingRequests, requestId, timers, callState, callId,
                 callSock, conts, transmitted>>

\* The peer's close frame (or the loss of its TCP connection) reaches an open
\* socket: ws sets readyState to CLOSING and emits no further message; the
\* 'close' event follows in a later turn of the event loop.
PeerClosing(s) ==
  /\ UNCHANGED outsideBroker
  /\ sockState[s] = "open"
  /\ sockState' = [sockState EXCEPT ![s] = "closingPeer"]
  /\ UNCHANGED <<extensionSocket, pendingRequests, requestId, timers, callState,
                 callId, callSock, conts, transmitted, notified>>
  /\ lastRx' = NoRx

\* Variant: the 'close' handler does not look at which socket closed.
IsCurrentAlways(s) == TRUE

\* `this.extensionSocket === ws` in the 'close' handler of socket s.
IsCurrent(s) == extensionSocket = s

\* ws 'close' handler.
Close(s) ==
  /\ UNCHANGED outsideBroker
  /\ sockState[s] \in {"closingLocal", "closingPeer"}
  /\ sockState' = [sockState EXCEPT ![s] = "closed"]
  /\ IF IsCurrent(s)
       THEN /\ extensionSocket' = NoSocket
            /\ notified' = Notify(FALSE)
       ELSE UNCHANGED <<extensionSocket, notified>>
  /\ lastRx' = NoRx
  /\ UNCHANGED <<pendingRequests, requestId, timers, callState, callId,
                 callSock, conts, transmitted>>

\* ---------------------------------------------------------- sendToExtension

\* Variant: the counter wraps around, so an id comes back while it is in use.
NextIdWrapped == (requestId % 1) + 1

\* `++this.requestId`.
NextId == requestId + 1

\* Variant: no timeout timer is armed.
ArmTimerNever(id, c) == timers

\* `setTimeout(..., 10000)`: timers of equal delay fire in the order they were set.
ArmTimer(id, c) == Append(timers, [id |-> id, call |-> c])

\* sendToExtension('switchToURL', { url }), the c-th call over the run (the
\* plugin's only caller is URLSwitcherPlugin.switchToURL).
SendToExtension(c) ==
  /\ UNCHANGED outsideBroker
  /\ callState[c] = "none"
  /\ \A d \in Calls : d < c => callState[d] # "none"
  /\ IF ~isConnected
       THEN /\ callState' = [callState EXCEPT ![c] = "failedFast"]
            /\ conts' = Invoke(c, "rejectNotConnected", NoEnv)
            /\ UNCHANGED <<pendingRequests, requestId, timers, callId, callSock,
                           transmitted>>
       ELSE LET id == NextId IN
            /\ requestId' = id
            /\ pendingRequests' = MapSet(pendingRequests, id, c)
            /\ transmitted' = [transmitted EXCEPT ![extensionSocket] = @ \cup {id}]
            /\ timers' = ArmTimer(id, c)
            /\ callState' = [callState EXCEPT ![c] = "sent"]
            /\ callId' = [callId EXCEPT ![c] = id]
            /\ callSock' = [callSock EXCEPT ![c] = extensionSocket]
            /\ UNCHANGED conts
  /\ lastRx' = NoRx
  /\ UNCHANGED <<sockState, extensionSocket, notified>>

\* Variant: the timer callback rejects without looking at the table.
TimerHitsAlways(id) == TRUE

\* Variant: the timer callback's test is inverted.
TimerHitsInverted(id) == id \notin DOMAIN pendingRequests

\* `this.pendingRequests.has(id)` in the timer callback.
TimerHits(id) == id \in DOMAIN pendingRequests

\* The 10-second timer of the oldest armed request fires. Nothing clears a
\* timer, so every armed timer fires, whether or not the request was answered.
Timeout ==
  /\ UNCHANGED outsideBroker
  /\ timers # <<>>
  /\ LET t == Head(timers) IN
     /\ timers' = Tail(timers)
     /\ IF TimerHits(t.id)
          THEN /\ pendingRequests' = MapDelete(pendingRequests, t.id)
               /\ conts' = Invoke(t.call, "rejectTimeout", NoEnv)
          ELSE UNCHANGED <<pendingRequests, conts>>
  /\ UNCHANGED <<sockState, extensionSocket, requestId, callState, callId,
                 callSock, transmitted, notified>>
  /\ lastRx' = NoRx

\* ------------------------------------------------- handleExtensionMessage

\* Variant: the keep-alive branch tests for the wrong tag.
IsPingWrongTag(env) == env.action = "pong"

\* `message.action === 'ping'`.
IsPing(env) == env.action = "ping"

\* The call holding the entry with the smallest id, 0 when the table is empty.
Oldest ==
  IF DOMAIN pendingRequests = {} THEN 0
  ELSE pendingRequests[CHOOSE i \in DOMAIN pendingRequests :
                         \A j \in DOMAIN pendingRequests : i <= j]

\* Variant: responses are matched to requests in send order, not by id.
LookupOldest(id) == Oldest

\* Variant: an envelope whose id is not in the table falls back to the
\* oldest pending request.
LookupOrOldest(id) ==
  IF id \in DOMAIN pendingRequests THEN pendingRequests[id] ELSE Oldest

\* `this.pendingRequests.get(message.id)`: the call holding the entry, 0 for undefined.
Lookup(id) == IF id \in DOMAIN pendingRequests THEN pendingRequests[id] ELSE 0

\* Variant: any `error` field rejects, an empty one included.
RejectsOnErrorField(env) == env.error # "absent"

\* `if (message.error)`: reject, else resolve.
Rejects(env) == Truthy(env.error)

\* sendRawToExtension(message): the envelopes it puts on extensionSocket,
\* the message when connected and nothing otherwise.
SendRawToExtension(message) == IF isConnected THEN <<message>> ELSE <<>>

\* handleExtensionMessage(message).
HandleExtensionMessage(env) ==
  IF IsPing(env)
    THEN /\ lastRx' = [id |-> env.id, action |-> env.action,
                       replies |-> SendRawToExtension(Pong)]
         /\ UNCHANGED <<pendingRequests, conts>>
    ELSE LET pending == Lookup(env.id) IN
         /\ lastRx' = [id |-> env.id, action |-> env.action, replies |-> <<>>]
         /\ IF pending # 0
              THEN /\ pendingRequests' = MapDelete(pendingRequests, env.id)
                   /\ conts' = IF Rejects(env)
                                 THEN Invoke(pending, "rejectPeer", env)
                                 ELSE Invoke(pending, "resolve", env)
              ELSE UNCHANGED <<pendingRequests, conts>>

\* A socket whose 'message' events still reach the handler: ws keeps emitting
\* messages on a socket the listener itself is closing, until the peer's
\* close frame arrives.
Delivers(s) == sockState[s] \in {"open", "closingLocal"}

\* ws 'message' handler, for any envelope a peer puts on the socket: the
\* agent's response to a request (in any order, its handler being async), a
\* keep-alive ping, a duplicate, an unknown or absent id.
Message(s, env) ==
  /\ UNCHANGED outsideBroker
  /\ Delivers(s)
  /\ HandleExtensionMessage(env)
  /\ UNCHANGED <<sockState, extensionSocket, requestId, timers, callState,
                 callId, callSock, transmitted, notified>>

\* ------------------------------------------- browser agent (background.js)

\* The `action` tags the plugin's envelopes can carry for handlePluginMessage:
\* its four cases and one tag it does not know.
AgentActions == {"getTabs", "switchToURL", "activateTab", "ping", "bogus"}

\* The cases of handlePluginMessage that await the chrome.tabs API before the
\* response is sent.
Awaits(a) == a \in {"getTabs", "switchToURL", "activateTab"}

\* The cases whose await can reject: getAllTabs' chrome.tabs.query is outside
\* any try block, while activateTab and openURL catch their own errors.
MayThrow(a) == a \in {"getTabs", "switchToURL"}

\* The script has run: its last statement called connectWebSocket().
AgentInit ==
  /\ readyState = [d \in Dials |-> IF d = 1 THEN "connecting" ELSE "none"]
  /\ websocket = 1
  /\ reconnectTimer = FALSE
  /\ timeouts = 0
  /\ keepAliveTimer = FALSE
  /\ intervals = 0
  /\ pings = {}
  /\ pongDue = FALSE
  /\ reqAction = [r \in Reqs |-> "none"]
  /\ reqState = [r \in Reqs |-> "none"]
  /\ responses = {}

\* `websocket && websocket.readyState === WebSocket.OPEN`.
SocketOpen == websocket # NoSocket /\ readyState[websocket] = "open"

\* connectWebSocket(): nothing when the socket is open, else a new WebSocket
\* in state CONNECTING replaces the global (the constructor does not throw
\* for the fixed, well-formed WS_URL).
ConnectWebSocket ==
  IF SocketOpen
    THEN UNCHANGED <<websocket, readyState>>
    ELSE \E d \in Dials :
           /\ readyState[d] = "none"
           /\ \A e \in Dials : e < d => readyState[e] # "none"
           /\ websocket' = d
           /\ readyState' = [readyState EXCEPT ![d] = "connecting"]

\* scheduleReconnect().
ScheduleReconnect ==
  IF reconnectTimer
    THEN UNCHANGED <<reconnectTimer, timeouts>>
    ELSE /\ reconnectTimer' = TRUE
         /\ timeouts' = timeouts + 1

\* clearReconnectTimer().
ClearReconnectTimer ==
  IF reconnectTimer
    THEN /\ reconnectTimer' = FALSE
         /\ timeouts' = timeouts - 1
    ELSE UNCHANGED <<reconnectTimer, timeouts>>

\* The interval timers left once stopKeepAlive() has run.
StoppedIntervals == IF keepAliveTimer THEN intervals - 1 ELSE intervals

\* Variant: the keep-alive interval is not cleared.
StopKeepAliveNever == UNCHANGED <<keepAliveTimer, intervals>>

\* stopKeepAlive().
StopKeepAlive ==
  /\ keepAliveTimer' = FALSE
  /\ intervals' = StoppedIntervals

\* startKeepAlive(): stopKeepAlive(), then a new interval timer.
StartKeepAlive ==
  /\ keepAliveTimer' = TRUE
  /\ intervals' = StoppedIntervals + 1

\* sendToPlugin(message) for a response envelope: transmitted when the socket
\* is open, dropped otherwise.
SendToPlugin(message) ==
  IF SocketOpen THEN responses \cup {message} ELSE responses

\* The payload fields handlePluginMessage puts on its response, by case.
ResponseFields(a) ==
  CASE a = "getTabs" -> {"tabs"}
    [] a = "switchToURL" -> {"result"}
    [] a = "activateTab" -> {"result"}
    [] a = "ping" -> {"result"}
    [] OTHER -> {"error"}

\* `{ id: message.id }` plus the case's field; NoId when the message had no
\* id (JSON.stringify leaves an undefined id out).
Response(id, a) == [id |-> id, fields |-> ResponseFields(a)]

\* websocket.onopen.
OnOpen(d) ==
  /\ readyState[d] = "connecting"
  /\ readyState' = [readyState EXCEPT ![d] = "open"]
  /\ ClearReconnectTimer
  /\ StartKeepAlive
  /\ UNCHANGED <<websocket, pings, pongDue, reqAction, reqState, responses>>
  /\ UNCHANGED outsideAgent

\* The plugin's close frame reaches an open socket: readyState is CLOSING
\* until the close event is dispatched.
Closing(d) ==
  /\ readyState[d] = "open"
  /\ readyState' = [readyState EXCEPT ![d] = "closing"]
  /\ UNCHANGED <<websocket, reconnectTimer, timeouts, keepAliveTimer, intervals,
                 pings, pongDue, reqAction, reqState, responses>>
  /\ UNCHANGED outsideAgent

\* websocket.onclose (after onerror, which only logs): the connection attempt
\* failed, the connection was lost, or the closing handshake finished.
OnClose(d) ==
  /\ readyState[d] \in {"connecting", "open", "closing"}
  /\ readyState' = [readyState EXCEPT ![d] = "closed"]
  /\ websocket' = NoSocket
  /\ StopKeepAlive
  /\ ScheduleReconnect
  /\ pongDue' = FALSE
  /\ UNCHANGED <<pings, reqAction, reqState, responses>>
  /\ UNCHANGED outsideAgent

\* Variant: the reconnect timer repeats like an interval.
TimeoutFiredRepeats == timeouts

\* The timers left when a setTimeout callback has run: it runs once.
TimeoutFired == timeouts - 1

\* The reconnect timer's callback.
ReconnectFire ==
  /\ timeouts > 0
  /\ timeouts' = TimeoutFired
  /\ reconnectTimer' = FALSE
  /\ ConnectWebSocket
  /\ UNCHANGED <<keepAliveTimer, intervals, pings, pongDue, reqAction, reqState,
                 responses>>
  /\ UNCHANGED outsideAgent

\* The keep-alive interval's callback: `{ action: 'ping' }` through
\* sendToPlugin when the socket is open.
KeepAliveTick ==
  /\ intervals > 0
  /\ IF SocketOpen
       THEN /\ pings' = IF SocketOpen THEN pings \cup {readyState[websocket]}
                                      ELSE pings
            /\ pongDue' = TRUE
       ELSE UNCHANGED <<pings, pongDue>>
  /\ UNCHANGED <<readyState, websocket, reconnectTimer, timeouts, keepAliveTimer,
                 intervals, reqAction, reqState, responses>>
  /\ UNCHANGED outsideAgent

\* websocket.onmessage for a request of the plugin, its r-th, with action a:
\* handlePluginMessage up to its first await, or to its end when the case
\* awaits nothing.
PluginRequest(r, a) ==
  /\ \E d \in Dials : readyState[d] = "open"
  /\ reqState[r] = "none"
  /\ \A q \in Reqs : q < r => reqState[q] # "none"
  /\ reqAction' = [reqAction EXCEPT ![r] = a]
  /\ IF Awaits(a)
       THEN /\ reqState' = [reqState EXCEPT ![r] = "awaiting"]
            /\ UNCHANGED responses
       ELSE /\ reqState' = [reqState EXCEPT ![r] = "done"]
            /\ responses' = SendToPlugin(Response(r, a))
  /\ UNCHANGED <<readyState, websocket, reconnectTimer, timeouts, keepAliveTimer,
                 intervals, pings, pongDue>>
  /\ UNCHANGED outsideAgent

\* The rest of handlePluginMessage once the awaited chrome.tabs call settles:
\* the response goes through sendToPlugin, or the call rejected and onmessage's
\* catch logs it.
Completion(r, threw) ==
  /\ reqState[r] = "awaiting"
  /\ threw => MayThrow(reqAction[r])
  /\ IF threw
       THEN /\ reqState' = [reqState EXCEPT ![r] = "threw"]
            /\ UNCHANGED responses
       ELSE /\ reqState' = [reqState EXCEPT ![r] = "done"]
            /\ responses' = SendToPlugin(Response(r, reqAction[r]))
  /\ UNCHANGED <<readyState, websocket, reconnectTimer, timeouts, keepAliveTimer,
                 intervals, pings, pongDue, reqAction>>
  /\ UNCHANGED outsideAgent

\* websocket.onmessage for the plugin's `{ action: 'pong' }`, its answer to a
\* keep-alive ping: handlePluginMessage takes the default case.
PluginPong ==
  /\ pongDue
  /\ \E d \in Dials : readyState[d] = "open"
  /\ pongDue' = FALSE
  /\ responses' = SendToPlugin(Response(NoId, "pong"))
  /\ UNCHANGED <<readyState, websocket, reconnectTimer, timeouts, keepAliveTimer,
                 intervals, pings, reqAction, reqState>>
  /\ UNCHANGED outsideAgent

\* ------------------------------------- native messaging host (native-host.js)

\* The sweep interval and the age beyond which an entry is stale: 30000 ms
\* each, in units of 10 seconds.
SweepPeriod == 3
StaleAfter == 3

\* The outcome fields an answer of Chrome can carry.
ChromeOutcomes == {"result", "error"}

\* The script has run: no client, an empty table, the sweep interval set.
HostInit ==
  /\ clientState = [c \in Clients |-> "idle"]
  /\ hostPending = <<>>
  /\ hostRequestId = 0
  /\ toChrome = {}
  /\ delivered = [c \in Clients |-> {}]
  /\ clock = 0
  /\ sweepDue = FALSE

\* The object literal `{ ...first, ...message }`: a field of `message`
\* replaces the field of the same name listed before the spread.
Spread(first, message) ==
  [k \in (DOMAIN first) \cup (DOMAIN message) |->
     IF k \in DOMAIN message THEN message[k] ELSE first[k]]

\* wss 'connection': the client joins wsClients.
HostConnection(c) ==
  /\ clientState[c] = "idle"
  /\ \A b \in Clients : b < c => clientState[b] # "idle"
  /\ clientState' = [clientState EXCEPT ![c] = "open"]
  /\ UNCHANGED <<hostPending, hostRequestId, toChrome, delivered, clock, sweepDue>>
  /\ UNCHANGED outsideHost

\* ws 'close': the client leaves wsClients; the table is not touched.
HostClose(c) ==
  /\ clientState[c] = "open"
  /\ clientState' = [clientState EXCEPT ![c] = "closed"]
  /\ UNCHANGED <<hostPending, hostRequestId, toChrome, delivered, clock, sweepDue>>
  /\ UNCHANGED outsideHost

\* handleStreamDeckMessage(ws, message) for a message of client c whose id
\* is x: a fresh internal id, a table entry, the message written to stdout
\* under the internal id.
HandleStreamDeckMessage(c, x) ==
  /\ clientState[c] = "open"
  /\ hostRequestId < MaxForwards
  /\ LET id == hostRequestId + 1 IN
     /\ hostRequestId' = id
     /\ hostPending' = MapSet(hostPending, id,
                              [ws |-> c, originalId |-> x, timestamp |-> clock])
     /\ toChrome' = toChrome \cup {id}
  /\ UNCHANGED <<clientState, delivered, clock, sweepDue>>
  /\ UNCHANGED outsideHost

\* Variant: the response goes to every open client.
RecipientsEveryOpenClient(pending) == {c \in Clients : clientState[c] = "open"}

\* `if (pending.ws.readyState === WebSocket.OPEN) pending.ws.send(...)`: the
\* clients the response is sent to.
Recipients(pending) ==
  IF clientState[pending.ws] = "open" THEN {pending.ws} ELSE {}

\* handleChromeMessage(message): the entry under message.id is removed and
\* the message, merged into `{ id: pending.originalId }`, is sent to the
\* entry's client when that client is still open.
HandleChromeMessage(message) ==
  /\ IF message.id \in DOMAIN hostPending
       THEN LET pending == hostPending[message.id]
                response == Spread([id |-> pending.originalId], message) IN
            /\ hostPending' = MapDelete(hostPending, message.id)
            /\ delivered' = [c \in Clients |->
                              IF c \in Recipients(pending)
                                THEN delivered[c] \cup {response}
                                ELSE delivered[c]]
       ELSE UNCHANGED <<hostPending, delivered>>
  /\ UNCHANGED <<clientState, hostRequestId, toChrome, clock, sweepDue>>
  /\ UNCHANGED outsideHost

\* Ten seconds pass; the sweep's interval elapses at every multiple of its
\* period, and its callback runs before more time passes.
Tick ==
  /\ ~sweepDue
  /\ clock < MaxClock
  /\ clock' = clock + 1
  /\ sweepDue' = (clock' % SweepPeriod = 0)
  /\ UNCHANGED <<clientState, hostPending, hostRequestId, toChrome, delivered>>
  /\ UNCHANGED outsideHost

\* `now - pending.timestamp > 30000`.
Stale(pending) == clock - pending.timestamp > StaleAfter

\* The sweep's interval callback: stale entries are deleted (and counted in
\* the log); nothing is sent to anyone.
Sweep ==
  /\ sweepDue
  /\ sweepDue' = FALSE
  /\ hostPending' = [id \in {i \in DOMAIN hostPending : ~Stale(hostPending[i])}
                       |-> hostPending[id]]
  /\ UNCHANGED <<clientState, hostRequestId, toChrome, delivered, clock>>
  /\ UNCHANGED outsideHost

\* The messages Chrome can write to the host's stdin: an answer carrying the
\* id of a request it was sent, or an id the host never used.
ChromeMessages == [id : 0..MaxForwards, outcome : ChromeOutcomes]

\* ------------------------------------------ URL matching (background.js)

\* Strings are sequences of characters: some written out.
Http == <<"h", "t", "t", "p", ":", "/", "/">>
Https == <<"h", "t", "t", "p", "s", ":", "/", "/">>
Www == <<"w", "w", "w", ".">>
GithubCom == <<"g", "i", "t", "h", "u", "b", ".", "c", "o", "m">>
ExampleCom == <<"e", "x", "a", "m", "p", "l", "e", ".", "c", "o", "m">>
ExampleOrg == <<"e", "x", "a", "m", "p", "l", "e", ".", "o", "r", "g">>
Page == <<"/", "p", "a", "g", "e">>
Frag == <<"#", "f", "r", "a", "g">>

\* The pieces URLs are put together from, and the strings of at most n pieces.
Chunks == {Https, Www, <<"/">>, <<"#">>, <<"a">>, <<"A">>}

RECURSIVE Strings(_)
Strings(n) ==
  IF n = 0 THEN {<<>>}
  ELSE LET shorter == Strings(n - 1) IN
       shorter \cup {u \o c : u \in shorter, c \in Chunks}

\* URLs written out in full.
Examples ==
  { Https \o GithubCom \o <<"/">>,
    GithubCom,
    Https \o Www \o ExampleCom \o Page \o Frag,
    ExampleCom \o Page,
    ExampleCom,
    ExampleOrg,
    <<"H", "T", "T", "P", ":", "/", "/", "W", "W", "W", ".", "a">>,
    Http \o <<"a">> }

TabUrls == Strings(MaxChunks) \cup Examples
TargetUrls == Strings(MaxTargetChunks) \cup Examples

\* String.prototype.startsWith.
StartsWith(u, prefix) ==
  /\ Len(prefix) <= Len(u)
  /\ SubSeq(u, 1, Len(prefix)) = prefix

\* The characters after the first n.
Drop(u, n) == SubSeq(u, n + 1, Len(u))

\* One character of toLowerCase().
LowerChar(ch) ==
  CASE ch = "A" -> "a"
    [] ch = "H" -> "h"
    [] ch = "T" -> "t"
    [] ch = "P" -> "p"
    [] ch = "S" -> "s"
    [] ch = "W" -> "w"
    [] OTHER -> ch

\* url.toLowerCase().
ToLowerCase(u) == [i \in 1..Len(u) |-> LowerChar(u[i])]

\* replace(/^https?:\/\//, '').
StripProtocol(u) ==
  IF StartsWith(u, Http) THEN Drop(u, Len(Http))
  ELSE IF StartsWith(u, Https) THEN Drop(u, Len(Https))
  ELSE u

\* replace(/^www\./, '').
StripWww(u) == IF StartsWith(u, Www) THEN Drop(u, Len(Www)) ELSE u

\* replace(/\/$/, ''): one slash at the very end.
StripTrailingSlash(u) ==
  IF Len(u) > 0 /\ u[Len(u)] = "/" THEN SubSeq(u, 1, Len(u) - 1) ELSE u

\* replace(/#.*$/, ''): everything from the first `#` on.
StripFragment(u) ==
  IF \E i \in 1..Len(u) : u[i] = "#"
    THEN LET first == CHOOSE i \in 1..Len(u) :
                        u[i] = "#" /\ \A j \in 1..(i - 1) : u[j] # "#" IN
         SubSeq(u, 1, first - 1)
    ELSE u

\* normalizeURL(url).
normalizeURL(url) ==
  IF url = <<>> THEN <<>>
  ELSE StripFragment(StripTrailingSlash(StripWww(StripProtocol(ToLowerCase(url)))))

\* Variant: only the tab's URL may be the longer one.
TabMatchesOneWay(tab, target) ==
  \/ tab = target
  \/ StartsWith(tab, target)

\* The two tests of findTabByURL's loop on the normalized strings: equal, or
\* one starts with the other.
TabMatches(tab, target) ==
  \/ tab = target
  \/ StartsWith(tab, target) \/ StartsWith(target, tab)

\* No findTabByURL in progress.
UrlInit ==
  /\ urlPhase = "idle"
  /\ targetURL = <<>>
  /\ normalizedTarget = <<>>
  /\ tabUrl = <<>>
  /\ normalizedTab = <<>>
  /\ matched = FALSE

\* findTabByURL(targetURL) up to its loop.
FindTabByURL(t) ==
  /\ urlPhase = "idle"
  /\ urlPhase' = "searching"
  /\ targetURL' = t
  /\ normalizedTarget' = normalizeURL(t)
  /\ tabUrl' = <<>>
  /\ normalizedTab' = <<>>
  /\ matched' = FALSE
  /\ UNCHANGED outsideUrl

\* One pass of the loop, for a tab whose url is u (getAllTabs has turned a
\* missing url into ''): the tab is returned when it matches.
CompareTab(u) ==
  /\ urlPhase = "searching"
  /\ tabUrl' = u
  /\ normalizedTab' = normalizeURL(u)
  /\ matched' = TabMatches(normalizedTab', normalizedTarget)
  /\ urlPhase' = IF matched' THEN "found" ELSE "passed"
  /\ UNCHANGED <<targetURL, normalizedTarget>>
  /\ UNCHANGED outsideUrl

\* The loop goes on to the next tab after one that did not match.
NextTab ==
  /\ urlPhase = "passed"
  /\ urlPhase' = "searching"
  /\ tabUrl' = <<>>
  /\ normalizedTab' = <<>>
  /\ UNCHANGED <<targetURL, normalizedTarget, matched>>
  /\ UNCHANGED outsideUrl

\* findTabByURL returns: the tab found, or null after the last tab; its
\* locals are gone.
ReturnTab ==
  /\ urlPhase \in {"searching", "found"}
  /\ urlPhase' = "idle"
  /\ targetURL' = <<>>
  /\ normalizedTarget' = <<>>
  /\ tabUrl' = <<>>
  /\ normalizedTab' = <<>>
  /\ matched' = FALSE
  /\ UNCHANGED outsideUrl

\* ------------------------------------------- switchToURL (background.js)

\* The tabs a directory can hold: one below the target's path, one at the
\* target itself, one elsewhere, one whose url Chrome does not disclose
\* (getAllTabs makes it '').
TabPool ==
  { [id |-> 1, windowId |-> 1, url |-> Https \o GithubCom \o <<"/", "f", "o", "o">>],
    [id |-> 2, windowId |-> 2, url |-> GithubCom],
    [id |-> 3, windowId |-> 1, url |-> Https \o Www \o ExampleOrg],
    [id |-> 4, windowId |-> 2, url |-> <<>>] }

\* The directories: up to MaxTabs tabs of the pool, each at most once, in
\* any order.
Directories ==
  {d \in UNION {[1..n -> TabPool] : n \in 0..MaxTabs} :
     \A i, j \in DOMAIN d : i # j => d[i] # d[j]}

\* The URLs switchToURL is asked for; the last two are the empty string and
\* "https://www.", whose normalization is empty.
SwitchTargets == {GithubCom, ExampleCom, Https \o ExampleOrg, <<>>, Https \o Www}

\* `null` for a tab, no response, the id of the tab chrome.tabs.create makes.
NoTab == [id |-> 0, windowId |-> 0, url |-> <<>>]
NoResponse == [id |-> NoId]
NewTabId == 9

\* Variant: an exact match anywhere in the directory is preferred to an
\* earlier prefix match.
findTabByURLExactFirst(tabs, url) ==
  LET target == normalizeURL(url)
      exact == {i \in DOMAIN tabs : normalizeURL(tabs[i].url) = target}
      any == {i \in DOMAIN tabs : TabMatches(normalizeURL(tabs[i].url), target)}
      Least(S) == CHOOSE i \in S : \A j \in S : i <= j IN
  IF exact # {} THEN tabs[Least(exact)]
  ELSE IF any # {} THEN tabs[Least(any)]
  ELSE NoTab

\* The loop of findTabByURL from the i-th tab on: the first tab that matches
\* is returned, null after the last.
RECURSIVE FindFrom(_, _, _)
FindFrom(tabs, i, target) ==
  IF i > Len(tabs) THEN NoTab
  ELSE IF TabMatches(normalizeURL(tabs[i].url), target) THEN tabs[i]
  ELSE FindFrom(tabs, i + 1, target)

\* Variant: nothing is looked for when the normalized target is empty.
findTabByURLUnlessEmpty(tabs, url) ==
  IF normalizeURL(url) = <<>> THEN NoTab ELSE FindFrom(tabs, 1, normalizeURL(url))

\* findTabByURL(targetURL) over the tabs getAllTabs returned.
findTabByURL(tabs, url) == FindFrom(tabs, 1, normalizeURL(url))

\* Variant: a new tab is opened whether or not one was found.
CollaboratorCallAlwaysOpens(tab, url) == [fn |-> "openURL", url |-> url]

\* The call switchToURL makes once findTabByURL has returned: activateTab
\* with the tab's id and windowId, or openURL with the url.
CollaboratorCall(tab, url) ==
  IF tab # NoTab
    THEN [fn |-> "activateTab", tabId |-> tab.id, windowId |-> tab.windowId]
    ELSE [fn |-> "openURL", url |-> url]

\* What activateTab / openURL return: success, or the caught error.
activateTab(ok) ==
  IF ok THEN [success |-> TRUE] ELSE [success |-> FALSE, error |-> "message"]
openURL(ok) ==
  IF ok THEN [success |-> TRUE, tabId |-> NewTabId]
        ELSE [success |-> FALSE, error |-> "message"]

\* What switchToURL returns: `{ ...result, action: 'activated', tab }` or
\* `{ ...result, action: 'opened' }`.
switchToURL(tab, ok) ==
  IF tab # NoTab
    THEN Spread(activateTab(ok), [action |-> "activated", tab |-> tab])
    ELSE Spread(openURL(ok), [action |-> "opened"])

\* No request in progress.
SwitchInit ==
  /\ swPhase = "idle"
  /\ swTarget = <<>>
  /\ directory = <<>>
  /\ existingTab = NoTab
  /\ collaboratorCalls = <<>>
  /\ swSent = NoResponse

\* handlePluginMessage({ id, action: 'switchToURL', url }) up to the first
\* await: switchToURL, findTabByURL and getAllTabs have called
\* chrome.tabs.query.
HandleSwitchToURL(url) ==
  /\ swPhase = "idle"
  /\ swPhase' = "querying"
  /\ swTarget' = url
  /\ directory' = <<>>
  /\ existingTab' = NoTab
  /\ collaboratorCalls' = <<>>
  /\ swSent' = NoResponse
  /\ UNCHANGED outsideSwitch

\* chrome.tabs.query rejects: the rejection passes through getAllTabs,
\* findTabByURL, switchToURL and handlePluginMessage to onmessage's catch,
\* which logs it.
QueryRejects ==
  /\ swPhase = "querying"
  /\ swPhase' = "threw"
  /\ UNCHANGED <<swTarget, directory, existingTab, collaboratorCalls, swSent>>
  /\ UNCHANGED outsideSwitch

\* chrome.tabs.query resolves with the tabs: findTabByURL runs its loop and
\* switchToURL calls activateTab or openURL.
QueryResolves(tabs) ==
  /\ swPhase = "querying"
  /\ swPhase' = "acting"
  /\ directory' = tabs
  /\ existingTab' = findTabByURL(tabs, swTarget)
  /\ collaboratorCalls' = Append(collaboratorCalls,
                                 CollaboratorCall(existingTab', swTarget))
  /\ UNCHANGED <<swTarget, swSent>>
  /\ UNCHANGED outsideSwitch

\* activateTab / openURL returns, its chrome calls having succeeded or not;
\* handlePluginMessage puts switchToURL's value in response.result and hands
\* the response to sendToPlugin, which transmits it when the socket is open.
CollaboratorReturns(ok, open) ==
  /\ swPhase = "acting"
  /\ LET response == [id |-> 1, result |-> switchToURL(existingTab, ok)] IN
     IF open
       THEN swPhase' = "sent" /\ swSent' = response
       ELSE swPhase' = "dropped" /\ swSent' = NoResponse
  /\ UNCHANGED <<swTarget, directory, existingTab, collaboratorCalls>>
  /\ UNCHANGED outsideSwitch

\* The request is over; the next one can come.
SwitchOver ==
  /\ swPhase \in {"sent", "dropped", "threw"}
  /\ swPhase' = "idle"
  /\ swTarget' = <<>>
  /\ directory' = <<>>
  /\ existingTab' = NoTab
  /\ collaboratorCalls' = <<>>
  /\ swSent' = NoResponse
  /\ UNCHANGED outsideSwitch

\* ------------------------------------- buttons (URLSwitcherPlugin, plugin.js)
\* The plugin's own connection to Stream Deck, over which the button events
\* arrive and the titles and feedback are sent, is open throughout.

\* The button contexts Stream Deck shows.
Contexts == {"ctxA", "ctxB"}

\* Characters outside ASCII: U+2026 and the warning sign.
Ellipsis == "U+2026"
WarningSign == "U+26A0 U+FE0F"

\* The title updateButtonState sets when not connected.
DisconnectedTitle ==
  <<WarningSign, "\n", "N", "o", " ", "B", "r", "o", "w", "s", "e", "r">>

\* Host names of 18, 13, 12 and 11 characters.
VeryLongDomainCom ==
  <<"v", "e", "r", "y", "l", "o", "n", "g", "d", "o", "m", "a", "i", "n", ".", "c", "o", "m">>
Thirteen == <<"a", "b", "c", "d", "e", "f", "g", "h", "i", ".", "c", "o", "m">>
Twelve == <<"a", "b", "c", "d", "e", "f", "g", "h", ".", "c", "o", "m">>
Eleven == <<"a", "b", "c", "d", "e", "f", "g", ".", "c", "o", "m">>
Hub == <<"H", "u", "b">>

\* Settings of a button; an empty string stands for a field that is absent
\* or empty, which the code does not tell apart (`!url`, `title || ...`).
NoSettings == [url |-> <<>>, title |-> <<>>]
SettingsPool ==
  { NoSettings,
    [url |-> Https \o Www \o VeryLongDomainCom \o <<"/", "x">>, title |-> <<>>],
    [url |-> Https \o Www \o VeryLongDomainCom \o <<"/", "x">>, title |-> Hub],
    [url |-> Thirteen, title |-> <<>>],
    [url |-> Http \o Twelve \o Page, title |-> <<>>],
    [url |-> Www \o Eleven \o <<"/">>, title |-> <<>>],
    [url |-> <<>>, title |-> Hub] }

\* display.split('/')[0]: the part before the first slash.
BeforeFirstSlash(u) ==
  IF \E i \in 1..Len(u) : u[i] = "/"
    THEN LET first == CHOOSE i \in 1..Len(u) :
                        u[i] = "/" /\ \A j \in 1..(i - 1) : u[j] # "/" IN
         SubSeq(u, 1, first - 1)
    ELSE u

\* Variant: everything longer than 10 characters is truncated.
TruncateOverTen(display) ==
  IF Len(display) > 10 THEN SubSeq(display, 1, 10) \o <<Ellipsis>> ELSE display

\* `if (display.length > 12) display = display.substring(0, 10) + '…'`.
Truncate(display) ==
  IF Len(display) > 12 THEN SubSeq(display, 1, 10) \o <<Ellipsis>> ELSE display

\* getURLSnippet(url).
getURLSnippet(url) ==
  IF url = <<>> THEN <<>>
  ELSE Truncate(BeforeFirstSlash(StripWww(StripProtocol(url))))

\* Variant: the title does not depend on the connection.
ButtonTitleIgnoresConnection(settings, connected) ==
  IF settings.title # <<>> THEN settings.title ELSE getURLSnippet(settings.url)

\* The title updateButtonState(context, connected) sets for these settings.
ButtonTitle(settings, connected) ==
  IF connected
    THEN IF settings.title # <<>> THEN settings.title
         ELSE getURLSnippet(settings.url)
    ELSE DisconnectedTitle

\* extensionServer.isConnected(), as the buttons see it.
ExtConnected == extLink = "open"

\* updateButtonState(context, connected), with the settings the step leaves
\* in actionSettings: the setTitle event sent.
UpdateButtonState(context, settings, connected) ==
  [context |-> context, title |-> ButtonTitle(settings, connected)]

\* A key press not made yet.
NoPress == [state |-> "none", context |-> "none", why |-> "none", feedback |-> <<>>]

\* How a request handed to sendToExtension can end after having been sent:
\* resolved with the agent's envelope (a result saying success or failure,
\* or no result at all), rejected with the peer's error, or timed out.
SendOutcomes == {"success", "failure", "noResult", "peerError", "timeout"}

\* Variant: any resolved request counts as success.
FeedbackOkOnResolve(why) ==
  IF why \in {"success", "failure", "noResult"} THEN "showOk" ELSE "showAlert"

\* switchToURL's choice between showOk and showAlert: showOk when the await
\* returned a response whose result.success is truthy.
Feedback(why) == IF why = "success" THEN "showOk" ELSE "showAlert"

\* No extension connected, no button shown, no key pressed.
ButtonInit ==
  /\ extLink = "none"
  /\ activeContexts = {}
  /\ actionSettings = [c \in Contexts |-> NoSettings]
  /\ titled = {}
  /\ presses = [p \in Presses |-> NoPress]

\* onExtensionConnectionChange(connected), called by the listener.
OnExtensionConnectionChange(connected) ==
  titled' = {UpdateButtonState(c, actionSettings[c], connected) : c \in activeContexts}

\* The listener accepts a peer and notifies true.
ExtConnection ==
  /\ extLink' = "open"
  /\ OnExtensionConnectionChange(TRUE)
  /\ UNCHANGED <<activeContexts, actionSettings, presses>>
  /\ UNCHANGED outsideButtons

\* The current peer's socket leaves OPEN; its 'close' event is yet to come.
ExtClosing ==
  /\ extLink = "open"
  /\ extLink' = "closing"
  /\ titled' = {}
  /\ UNCHANGED <<activeContexts, actionSettings, presses>>
  /\ UNCHANGED outsideButtons

\* The current peer's 'close' event: the listener notifies false.
ExtClose ==
  /\ extLink = "closing"
  /\ extLink' = "none"
  /\ OnExtensionConnectionChange(FALSE)
  /\ UNCHANGED <<activeContexts, actionSettings, presses>>
  /\ UNCHANGED outsideButtons

\* onWillAppear(context, payload).
OnWillAppear(context, settings) ==
  /\ context \notin activeContexts
  /\ actionSettings' = [actionSettings EXCEPT ![context] = settings]
  /\ activeContexts' = activeContexts \cup {context}
  /\ titled' = {UpdateButtonState(context, settings, ExtConnected)}
  /\ UNCHANGED <<extLink, presses>>
  /\ UNCHANGED outsideButtons

\* onWillDisappear(context).
OnWillDisappear(context) ==
  /\ context \in activeContexts
  /\ actionSettings' = [actionSettings EXCEPT ![context] = NoSettings]
  /\ activeContexts' = activeContexts \ {context}
  /\ titled' = {}
  /\ UNCHANGED <<extLink, presses>>
  /\ UNCHANGED outsideButtons

\* onDidReceiveSettings(context, payload).
OnDidReceiveSettings(context, settings) ==
  /\ context \in activeContexts
  /\ actionSettings' = [actionSettings EXCEPT ![context] = settings]
  /\ titled' = {UpdateButtonState(context, settings, ExtConnected)}
  /\ UNCHANGED <<extLink, activeContexts, presses>>
  /\ UNCHANGED outsideButtons

\* onKeyDown(context, payload), the p-th key press: showAlert when no URL is
\* configured; else switchToURL, whose await of sendToExtension rejects at
\* once when not connected (showAlert) and is left pending otherwise.
OnKeyDown(p, context) ==
  /\ presses[p].state = "none"
  /\ \A q \in Presses : q < p => presses[q].state # "none"
  /\ context \in activeContexts
  /\ presses' =
       [presses EXCEPT ![p] =
          IF actionSettings[context].url = <<>>
            THEN [state |-> "done", context |-> context, why |-> "noUrl",
                  feedback |-> <<[event |-> "showAlert", context |-> context]>>]
          ELSE IF ~ExtConnected
            THEN [state |-> "done", context |-> context, why |-> "notConnected",
                  feedback |-> <<[event |-> Feedback("notConnected"),
                                  context |-> context]>>]
          ELSE [state |-> "awaiting", context |-> context, why |-> "none",
                feedback |-> <<>>]]
  /\ titled' = {}
  /\ UNCHANGED <<extLink, activeContexts, actionSettings>>
  /\ UNCHANGED outsideButtons

\* The await in switchToURL(url, context) returns or throws: the request of
\* key press p ended in outcome `why`.
Settle(p, why) ==
  /\ presses[p].state = "awaiting"
  /\ presses' =
       [presses EXCEPT ![p] =
          [state |-> "done", context |-> @.context, why |-> why,
           feedback |-> Append(@.feedback,
                               [event |-> Feedback(why), context |-> @.context])]]
  /\ titled' = {}
  /\ UNCHANGED <<extLink, activeContexts, actionSettings>>
  /\ UNCHANGED outsideButtons

\* --------------------------- native messaging frames (native-host.js 12-31)
\* Texts are sequences of code points, buffers sequences of bytes.

\* The UTF-8 bytes of one code point of the basic plane.
Utf8(cp) ==
  IF cp < 128 THEN <<cp>>
  ELSE IF cp < 2048 THEN <<192 + (cp \div 64), 128 + (cp % 64)>>
  ELSE <<224 + (cp \div 4096), 128 + ((cp \div 64) % 64), 128 + (cp % 64)>>

\* The UTF-8 encoding of a text.
RECURSIVE Utf8Text(_)
Utf8Text(text) ==
  IF text = <<>> THEN <<>> ELSE Utf8(Head(text)) \o Utf8Text(Tail(text))

\* buffer.toString('utf8'): bytes that start no well-formed sequence decode
\* to U+FFFD.
RECURSIVE ToStringUtf8(_)
ToStringUtf8(b) ==
  IF b = <<>> THEN <<>>
  ELSE IF b[1] < 128 THEN <<b[1]>> \o ToStringUtf8(Tail(b))
  ELSE IF /\ b[1] \in 192..223
          /\ Len(b) >= 2
          /\ b[2] \in 128..191
    THEN <<(b[1] - 192) * 64 + (b[2] - 128)>> \o ToStringUtf8(SubSeq(b, 3, Len(b)))
  ELSE IF /\ b[1] \in 224..239
          /\ Len(b) >= 3
          /\ b[2] \in 128..191
          /\ b[3] \in 128..191
    THEN <<(b[1] - 224) * 4096 + (b[2] - 128) * 64 + (b[3] - 128)>>
           \o ToStringUtf8(SubSeq(b, 4, Len(b)))
  ELSE <<65533>> \o ToStringUtf8(Tail(b))

\* writeUInt32LE / readUInt32LE at offset 0.
WriteUInt32LE(n) ==
  <<n % 256, (n \div 256) % 256, (n \div 65536) % 256, (n \div 16777216) % 256>>
ReadUInt32LE(b) == b[1] + 256 * b[2] + 65536 * b[3] + 16777216 * b[4]

\* The messages of the model are the objects {"t": <string>} whose string
\* needs no escaping. JSON.stringify of such a message:  {"t":"..."}
JSONstringify(message) == <<123, 34, 116, 34, 58, 34>> \o message.t \o <<34, 125>>

\* The texts JSON.parse accepts among those that occur (the others throw).
JSONvalid(text) ==
  /\ Len(text) >= 8
  /\ SubSeq(text, 1, 6) = <<123, 34, 116, 34, 58, 34>>
  /\ SubSeq(text, Len(text) - 1, Len(text)) = <<34, 125>>
  /\ \A i \in 7..(Len(text) - 2) : text[i] >= 32 /\ text[i] \notin {34, 92}

\* JSON.parse of an accepted text.
JSONparse(text) == [t |-> SubSeq(text, 7, Len(text) - 2)]

\* The strings of the messages: "a", "é", "€b", "é€".
Payloads == {<<97>>, <<233>>, <<8364, 98>>, <<233, 8364>>}
Messages == {[t |-> s] : s \in Payloads}

\* The texts the peer sends: two well-formed ones, one of them not ASCII,
\* and the malformed text  {"t
WireTexts == {JSONstringify([t |-> <<97>>]), JSONstringify([t |-> <<233>>]), <<123, 34, 116>>}

\* A frame as the browser writes it: the body's length in bytes, then the body.
WellFormedFrame(text) == WriteUInt32LE(Len(Utf8Text(text))) \o Utf8Text(text)

\* The frames of a list of texts, one after the other.
RECURSIVE Frames(_)
Frames(list) ==
  IF list = <<>> THEN <<>> ELSE WellFormedFrame(Head(list)) \o Frames(Tail(list))

\* readNativeMessage(buffer): null, an exception out of JSON.parse, or the
\* message with the bytes it took.
readNativeMessage(buffer) ==
  IF Len(buffer) < 4 THEN [kind |-> "null"]
  ELSE LET length == ReadUInt32LE(buffer) IN
       IF Len(buffer) < 4 + length THEN [kind |-> "null"]
       ELSE LET message == ToStringUtf8(SubSeq(buffer, 5, 4 + length)) IN
            IF JSONvalid(message)
              THEN [kind |-> "message", message |-> JSONparse(message),
                    bytesRead |-> 4 + length]
              ELSE [kind |-> "throw"]

\* The bytes of the longest prefix of whole characters that fits in `room`
\* bytes: buffer.write does not write part of a character.
RECURSIVE Fitting(_, _)
Fitting(text, room) ==
  IF text = <<>> \/ Len(Utf8(Head(text))) > room THEN <<>>
  ELSE Utf8(Head(text)) \o Fitting(Tail(text), room - Len(Utf8(Head(text))))

\* buffer.write(json, 4) into the zero-filled rest of a buffer of `size` bytes.
BufferWrite(json, size) ==
  LET body == Fitting(json, size) IN
  body \o [i \in 1..(size - Len(body)) |-> 0]

\* writeNativeMessage(message): the buffer written to stdout.
writeNativeMessage(message) ==
  LET json == JSONstringify(message) IN
  WriteUInt32LE(Len(json)) \o BufferWrite(json, Len(json))

\* The outcome of one run of the stdin handler's loop.
Run(buffer, h, t) == [inputBuffer |-> buffer, handled |-> h, threw |-> t]

\* Variant: `if` for `while`, at most one message per chunk.
DrainOnce(buffer, h) ==
  LET result == readNativeMessage(buffer) IN
  IF result.kind = "null" THEN Run(buffer, h, FALSE)
  ELSE IF result.kind = "throw" THEN Run(buffer, h, TRUE)
  ELSE Run(SubSeq(buffer, result.bytesRead + 1, Len(buffer)),
           Append(h, result.message), FALSE)

\* The loop of the stdin handler: read, slice and handle until
\* readNativeMessage returns null; an exception leaves the loop and the
\* handler with inputBuffer as it is.
RECURSIVE Drain(_, _)
Drain(buffer, h) ==
  LET result == readNativeMessage(buffer) IN
  IF result.kind = "null" THEN Run(buffer, h, FALSE)
  ELSE IF result.kind = "throw" THEN Run(buffer, h, TRUE)
  ELSE Drain(SubSeq(buffer, result.bytesRead + 1, Len(buffer)),
             Append(h, result.message))

\* The plugin's 'message' handler: parse and handle inside try, log in catch.
PluginOnMessage(text, h) == IF JSONvalid(text) THEN Append(h, JSONparse(text)) ELSE h

\* The sizes a chunk of stdin can have: up to the whole stream.
FrameSizes == {Len(WellFormedFrame(text)) : text \in WireTexts}
ChunkSizes ==
  1..(MaxFrames * (CHOOSE n \in FrameSizes : \A m \in FrameSizes : m <= n))

\* Nothing has been sent, has arrived or been written.
FrameInit ==
  /\ texts = <<>>
  /\ wire = <<>>
  /\ inputBuffer = <<>>
  /\ handled = <<>>
  /\ uncaught = FALSE
  /\ written = [t |-> <<>>]
  /\ stdout = <<>>
  /\ wsNext = 1
  /\ wsHandled = <<>>

\* The peer sends one more text: as a frame on the host's stdin, and as a
\* WebSocket message to the plugin.
PeerSends(text) ==
  /\ Len(texts) < MaxFrames
  /\ texts' = Append(texts, text)
  /\ wire' = wire \o WellFormedFrame(text)
  /\ UNCHANGED <<inputBuffer, handled, uncaught, written, stdout, wsNext, wsHandled>>
  /\ UNCHANGED outsideFrames

\* process.stdin.on('data'): the next n bytes of the stream arrive as a chunk.
\* An exception thrown in the loop reaches process.on('uncaughtException'),
\* which logs it; the process goes on.
OnStdinData(n) ==
  /\ n \in 1..Len(wire)
  /\ LET run == Drain(inputBuffer \o SubSeq(wire, 1, n), handled) IN
       /\ inputBuffer' = run.inputBuffer
       /\ handled' = run.handled
       /\ uncaught' = run.threw
  /\ wire' = SubSeq(wire, n + 1, Len(wire))
  /\ UNCHANGED <<texts, written, stdout, wsNext, wsHandled>>
  /\ UNCHANGED outsideFrames

\* writeNativeMessage(message).
WriteNativeMessage(message) ==
  /\ written' = message
  /\ stdout' = writeNativeMessage(message)
  /\ UNCHANGED <<texts, wire, inputBuffer, handled, uncaught, wsNext, wsHandled>>
  /\ UNCHANGED outsideFrames

\* ws.on('message') in the plugin (plugin.js 66-73): the next text arrives as
\* one WebSocket message.
PluginMessage ==
  /\ wsNext <= Len(texts)
  /\ wsHandled' = PluginOnMessage(texts[wsNext], wsHandled)
  /\ wsNext' = wsNext + 1
  /\ UNCHANGED <<texts, wire, inputBuffer, handled, uncaught, written, stdout>>
  /\ UNCHANGED outsideFrames

\* ------------- listeners on port 9334 (plugin.js 40-99, native-host.js 45-84)
\* `new WebSocket.Server({ port })` returns before the port is bound; the
\* outcome of the bind comes later, as the server's 'listening' or 'error'
\* event. For a port in use the constructor does not throw, so the catch
\* around it is not reached.

\* The plugin process and the native host process.
Procs == {"plugin", "host"}

\* Nothing runs; the port is free.
ListenInit ==
  /\ portOwner = "free"
  /\ procPhase = [p \in Procs |-> "off"]
  /\ started = FALSE
  /\ procLog = [p \in Procs |-> <<>>]
  /\ launches = [p \in Procs |-> 0]

\* Some other process binds the port, or gives it up.
OtherBinds ==
  /\ portOwner = "free"
  /\ portOwner' = "other"
  /\ UNCHANGED <<procPhase, started, procLog, launches>>
  /\ UNCHANGED outsideListen

OtherReleases ==
  /\ portOwner = "other"
  /\ portOwner' = "free"
  /\ UNCHANGED <<procPhase, started, procLog, launches>>
  /\ UNCHANGED outsideListen

\* The plugin process is launched with its arguments: connectToStreamDeck
\* (plugin.js 485-486); the listener starts later, on 'open'.
LaunchPlugin ==
  /\ procPhase["plugin"] = "off"
  /\ launches["plugin"] < MaxLaunches
  /\ launches' = [launches EXCEPT !["plugin"] = @ + 1]
  /\ procPhase' = [procPhase EXCEPT !["plugin"] = "connecting"]
  /\ started' = FALSE
  /\ procLog' = [procLog EXCEPT !["plugin"] = <<>>]
  /\ UNCHANGED portOwner
  /\ UNCHANGED outsideListen

\* ExtensionServer.start(), called when the connection to Stream Deck opens:
\* the server is constructed, started is set and "listening" is logged.
ExtensionServerStart ==
  /\ procPhase["plugin"] = "connecting"
  /\ ~started
  /\ procPhase' = [procPhase EXCEPT !["plugin"] = "binding"]
  /\ started' = TRUE
  /\ procLog' = [procLog EXCEPT !["plugin"] = Append(@, "listening on port")]
  /\ UNCHANGED <<portOwner, launches>>
  /\ UNCHANGED outsideListen

\* The native host process is launched: startWebSocketServer() runs with the
\* script (native-host.js 209): the server is constructed and "listening" is
\* logged.
StartWebSocketServer ==
  /\ procPhase["host"] = "off"
  /\ launches["host"] < MaxLaunches
  /\ launches' = [launches EXCEPT !["host"] = @ + 1]
  /\ procPhase' = [procPhase EXCEPT !["host"] = "binding"]
  /\ procLog' = [procLog EXCEPT !["host"] = <<"listening on port">>]
  /\ UNCHANGED <<portOwner, started>>
  /\ UNCHANGED outsideListen

\* The port was free: the server listens.
BindSucceeds(p) ==
  /\ procPhase[p] = "binding"
  /\ portOwner = "free"
  /\ portOwner' = p
  /\ procPhase' = [procPhase EXCEPT ![p] = "listening"]
  /\ UNCHANGED <<started, procLog, launches>>
  /\ UNCHANGED outsideListen

\* The port was in use: the server emits 'error' (EADDRINUSE), and the
\* handler of wss.on('error') logs it and returns.
BindFails(p) ==
  /\ procPhase[p] = "binding"
  /\ portOwner # "free"
  /\ procPhase' = [procPhase EXCEPT ![p] = "failed"]
  /\ procLog' = [procLog EXCEPT ![p] = Append(@, "server error")]
  /\ UNCHANGED <<portOwner, started, launches>>
  /\ UNCHANGED outsideListen

\* The process ends: SIGINT in the native host (wss.close(), process.exit(0),
\* native-host.js 235-239), the plugin when Stream Deck ends it.
Terminate(p) ==
  /\ procPhase[p] # "off"
  /\ procPhase' = [procPhase EXCEPT ![p] = "off"]
  /\ portOwner' = IF portOwner = p THEN "free" ELSE portOwner
  /\ UNCHANGED <<started, procLog, launches>>
  /\ UNCHANGED outsideListen

\* ------------- plugin and agent on one connection (plugin.js 105-136,
\* ------------- background.js 151-201)
\* Each envelope carries, beside its fields, the ping it was sent because of
\* (0 for the traffic of a request), which no handler reads.

\* The actions the plugin requests.
RequestActions == {"switchToURL", "getTabs"}

\* `{ action: 'ping' }` of the k-th keep-alive tick.
PingEnvelope(k) == [id |-> NoId, action |-> "ping", error |-> "absent", origin |-> k]

\* The plugin's `{ action: 'pong' }`.
PongEnvelope(k) == [id |-> NoId, action |-> "pong", error |-> "absent", origin |-> k]

\* Variant: the agent's response repeats the keep-alive tag.
ResponseEnvelopeTaggedPing(message) ==
  [id |-> message.id, action |-> "ping",
   error |-> IF "error" \in ResponseFields(message.action) THEN "truthy" ELSE "absent",
   origin |-> message.origin]

\* The response handlePluginMessage builds: `{ id: message.id }` and the field
\* of its case, an error for an action it does not know; it has no action.
ResponseEnvelope(message) ==
  [id |-> message.id, action |-> "none",
   error |-> IF "error" \in ResponseFields(message.action) THEN "truthy" ELSE "absent",
   origin |-> message.origin]

\* Connected, nothing in flight, nothing pending.
WireInit ==
  /\ wireOpen = TRUE
  /\ toPlugin = <<>>
  /\ toAgent = <<>>
  /\ wirePending = {}
  /\ wireSettled = {}
  /\ wireNextId = 0
  /\ pingsSent = 0
  /\ caused = [k \in Pings |-> <<>>]

\* The envelopes sent because of a ping, with this one added.
Caused(message) ==
  IF message.origin \in Pings
    THEN [caused EXCEPT ![message.origin] = Append(@, message.action)]
    ELSE caused

\* The keep-alive interval's callback in the agent: a ping through
\* sendToPlugin when the socket is open.
WireKeepAliveTick ==
  /\ pingsSent < MaxPings
  /\ pingsSent' = pingsSent + 1
  /\ IF wireOpen
       THEN /\ toPlugin' = Append(toPlugin, PingEnvelope(pingsSent + 1))
            /\ caused' = Caused(PingEnvelope(pingsSent + 1))
       ELSE UNCHANGED <<toPlugin, caused>>
  /\ UNCHANGED <<wireOpen, toAgent, wirePending, wireSettled, wireNextId>>
  /\ UNCHANGED outsideWire

\* sendToExtension(action) in the plugin while connected: the envelope goes
\* out and its id is pending (the timer of the request is the broker's).
WireSendToExtension(a) ==
  /\ wireOpen
  /\ wireNextId < MaxCalls
  /\ wireNextId' = wireNextId + 1
  /\ wirePending' = wirePending \cup {wireNextId + 1}
  /\ toAgent' = Append(toAgent, [id |-> wireNextId + 1, action |-> a,
                                 error |-> "absent", origin |-> 0])
  /\ UNCHANGED <<wireOpen, toPlugin, wireSettled, pingsSent, caused>>
  /\ UNCHANGED outsideWire

\* handleExtensionMessage in the plugin for the next envelope from the agent:
\* a pong through sendRawToExtension for a ping; else the pending request of
\* its id, if there is one, is removed and rejected or resolved.
WirePluginMessage ==
  /\ toPlugin # <<>>
  /\ LET message == Head(toPlugin) IN
       IF IsPing(message)
         THEN /\ toAgent' = IF wireOpen
                              THEN Append(toAgent, PongEnvelope(message.origin))
                              ELSE toAgent
              /\ caused' = IF wireOpen THEN Caused(PongEnvelope(message.origin))
                                       ELSE caused
              /\ UNCHANGED <<wirePending, wireSettled>>
         ELSE /\ IF message.id \in wirePending
                   THEN /\ wirePending' = wirePending \ {message.id}
                        /\ wireSettled' = wireSettled \cup
                             {[id |-> message.id,
                               how |-> IF Rejects(message) THEN "rejectPeer"
                                                            ELSE "resolve",
                               origin |-> message.origin]}
                   ELSE UNCHANGED <<wirePending, wireSettled>>
              /\ UNCHANGED <<toAgent, caused>>
  /\ toPlugin' = Tail(toPlugin)
  /\ UNCHANGED <<wireOpen, wireNextId, pingsSent>>
  /\ UNCHANGED outsideWire

\* websocket.onmessage in the agent for the next envelope from the plugin:
\* handlePluginMessage sends its response through sendToPlugin.
WireAgentMessage ==
  /\ toAgent # <<>>
  /\ LET message == Head(toAgent) IN
       IF wireOpen
         THEN /\ toPlugin' = Append(toPlugin, ResponseEnvelope(message))
              /\ caused' = Caused(ResponseEnvelope(message))
         ELSE UNCHANGED <<toPlugin, caused>>
  /\ toAgent' = Tail(toAgent)
  /\ UNCHANGED <<wireOpen, wirePending, wireSettled, wireNextId, pingsSent>>
  /\ UNCHANGED outsideWire

\* The connection closes: what was in flight is lost, and no send goes out
\* any more.
WireClose ==
  /\ wireOpen
  /\ wireOpen' = FALSE
  /\ toPlugin' = <<>>
  /\ toAgent' = <<>>
  /\ UNCHANGED <<wirePending, wireSettled, wireNextId, pingsSent, caused>>
  /\ UNCHANGED outsideWire

\* ------------------------------------------------------------ specification
Next ==
  \/ \E s \in Sockets : Connection(s)
  \/ \E s \in Sockets : PeerClosing(s)
  \/ \E s \in Sockets : Close(s)
  \/ \E c \in Calls : SendToExtension(c)
  \/ Timeout
  \/ \E s \in Sockets, env \in Envelopes : Message(s, env)

AgentNext ==
  \/ \E d \in Dials : OnOpen(d)
  \/ \E d \in Dials : Closing(d)
  \/ \E d \in Dials : OnClose(d)
  \/ ReconnectFire
  \/ KeepAliveTick
  \/ \E r \in Reqs, a \in AgentActions : PluginRequest(r, a)
  \/ \E r \in Reqs, threw \in BOOLEAN : Completion(r, threw)
  \/ PluginPong

\* Every component as it is once its script has been loaded.
Start ==
  /\ Init /\ AgentInit /\ HostInit /\ UrlInit /\ SwitchInit /\ ButtonInit
  /\ FrameInit /\ ListenInit /\ WireInit

\* The plugin's broker, the rest at its initial state.
Spec == Start /\ [][Next]_vars

\* The timers the event loop holds do fire.
FairSpec == Spec /\ WF_vars(Timeout)

\* The browser agent, the rest at its initial state.
AgentSpec == Start /\ [][AgentNext]_agentVars

\* The reconnect timer the event loop holds does fire.
AgentFairSpec == AgentSpec /\ WF_agentVars(ReconnectFire)

HostNext ==
  \/ \E c \in Clients : HostConnection(c)
  \/ \E c \in Clients : HostClose(c)
  \/ \E c \in Clients, x \in Forwards : HandleStreamDeckMessage(c, x)
  \/ \E message \in ChromeMessages : HandleChromeMessage(message)
  \/ Tick
  \/ Sweep

\* The native messaging host, the rest at its initial state.
HostSpec == Start /\ [][HostNext]_hostVars

UrlNext ==
  \/ \E t \in TargetUrls : FindTabByURL(t)
  \/ \E u \in TabUrls : CompareTab(u)
  \/ NextTab
  \/ ReturnTab

\* The agent's URL matching, the rest at its initial state.
UrlSpec == Start /\ [][UrlNext]_urlVars

SwitchNext ==
  \/ \E url \in SwitchTargets : HandleSwitchToURL(url)
  \/ QueryRejects
  \/ \E tabs \in Directories : QueryResolves(tabs)
  \/ \E ok, open \in BOOLEAN : CollaboratorReturns(ok, open)
  \/ SwitchOver

\* The agent's switchToURL, the rest at its initial state.
SwitchSpec == Start /\ [][SwitchNext]_switchVars

ButtonNext ==
  \/ ExtConnection
  \/ ExtClosing
  \/ ExtClose
  \/ \E c \in Contexts, st \in SettingsPool : OnWillAppear(c, st)
  \/ \E c \in Contexts : OnWillDisappear(c)
  \/ \E c \in Contexts, st \in SettingsPool : OnDidReceiveSettings(c, st)
  \/ \E p \in Presses, c \in Contexts : OnKeyDown(p, c)
  \/ \E p \in Presses, why \in SendOutcomes : Settle(p, why)

\* The plugin's buttons, the rest at its initial state.
ButtonSpec == Start /\ [][ButtonNext]_buttonVars

\* Every request handed to sendToExtension ends (C1).
ButtonFairSpec ==
  ButtonSpec /\ \A p \in Presses : WF_buttonVars(\E why \in SendOutcomes : Settle(p, why))

FrameNext ==
  \/ \E text \in WireTexts : PeerSends(text)
  \/ \E n \in ChunkSizes : OnStdinData(n)
  \/ \E message \in Messages : WriteNativeMessage(message)
  \/ PluginMessage

\* Native messaging frames and the plugin's inbound messages, the rest at its
\* initial state.
FrameSpec == Start /\ [][FrameNext]_frameVars

ListenNext ==
  \/ OtherBinds
  \/ OtherReleases
  \/ LaunchPlugin
  \/ ExtensionServerStart
  \/ StartWebSocketServer
  \/ \E p \in Procs : BindSucceeds(p)
  \/ \E p \in Procs : BindFails(p)
  \/ \E p \in Procs : Terminate(p)

\* The two listeners and their port, the rest at its initial state.
ListenSpec == Start /\ [][ListenNext]_listenVars

WireNext ==
  \/ WireKeepAliveTick
  \/ \E a \in RequestActions : WireSendToExtension(a)
  \/ WirePluginMessage
  \/ WireAgentMessage
  \/ WireClose

\* The plugin and the agent on one connection, the rest at its initial state.
WireSpec == Start /\ [][WireNext]_wireVars


\* ------------------------------------------------------------------ claims

\* The ways a call of sendToExtension can end.
Outcomes == {"resolve", "rejectNotConnected", "rejectPeer", "rejectTimeout"}

\* The connection to the peer is open, read off the sockets themselves.
PeerOpen == \E s \in Sockets : extensionSocket = s /\ sockState[s] = "open"

\* Timers still armed for request id.
ArmedFor(id) == {i \in 1..Len(timers) : timers[i].id = id}

\* C1: every call of sendToExtension eventually settles, in exactly one of the
\* four outcomes (peer's response, not connected, peer's error, timeout),
\* whatever the peer does, provided armed timers fire.
C1_EverySendSettles ==
  \A c \in Calls :
    (callState[c] # "none") ~>
      (Len(conts[c]) = 1 /\ conts[c][1].kind \in Outcomes)

\* C1 witness: a request sent to a peer that then went away was settled by
\* its timer, and another call was settled differently.
C1_Witness ==
  \E c, d \in Calls :
    /\ callState[c] = "sent"
    /\ sockState[callSock[c]] = "closed"
    /\ conts[c] = <<[kind |-> "rejectTimeout", env |-> NoEnv]>>
    /\ Len(conts[d]) = 1
    /\ conts[d][1].kind # "rejectTimeout"

\* C2: the continuation of a request is invoked at most once, and exactly
\* once when the request has left the table, under responses, duplicate
\* responses and timer firings in any order.
C2_ContinuationOnce ==
  \A c \in Calls :
    /\ Len(conts[c]) <= 1
    /\ (callState[c] = "sent" /\ callId[c] \notin DOMAIN pendingRequests)
         => Len(conts[c]) = 1

\* C2 witness: a request was resolved, its timer fired afterwards, and then
\* the response arrived a second time.
C2_Witness ==
  \E c \in Calls :
    /\ callState[c] = "sent"
    /\ Len(conts[c]) = 1
    /\ conts[c][1].kind = "resolve"
    /\ ArmedFor(callId[c]) = {}
    /\ lastRx.action = "other"
    /\ lastRx.id = callId[c]

\* C3: a call made while the connection is not open fails at once with the
\* not-connected error, adds no table entry, does not advance the id counter,
\* arms no timer and transmits nothing; afterwards it is never given an id.
C3_NotConnectedFailsFast ==
  [][\A c \in Calls :
       /\ (callState[c] = "none" /\ callState'[c] # "none" /\ ~PeerOpen)
            => /\ callState'[c] = "failedFast"
               /\ conts'[c] = <<[kind |-> "rejectNotConnected", env |-> NoEnv]>>
               /\ UNCHANGED <<pendingRequests, requestId, timers, transmitted>>
       /\ callState[c] = "failedFast"
            => /\ callState'[c] = "failedFast"
               /\ callId'[c] = NoId
               /\ conts'[c] = conts[c]]_vars

\* C3 witness: a call failed fast while the listener still held a socket
\* that was closing, and a later connection has been accepted since.
C3_Witness ==
  \E c \in Calls :
    /\ callState[c] = "failedFast"
    /\ callId[c] = NoId
    /\ sockState[1] = "closingPeer"
    /\ extensionSocket = 2
    /\ sockState[2] = "open"

\* The step being taken is a run of the message handler (lastRx' tells its
\* envelope).
MessageStep == lastRx' # NoRx

\* The step being taken is the firing of the oldest timer.
TimerStep == timers # <<>> /\ timers' = Tail(timers)

\* C4: once the 'close' handler of a connection has run, no request sent
\* over that connection is still in the table: each was removed and its
\* continuation rejected in the close handling.
C4_CloseFailsItsPending ==
  \A c \in Calls :
    (callState[c] = "sent" /\ sockState[callSock[c]] = "closed")
      => (callId[c] \notin DOMAIN pendingRequests /\ Len(conts[c]) = 1)

\* C5: when the timer of a still-pending request fires, the entry is removed
\* and the caller rejected with the timeout error; a response carrying that
\* id afterwards is dropped: no continuation is invoked, no entry changes.
C5_TimeoutThenLateResponseDropped ==
  [][/\ (TimerStep /\ Head(timers).id \in DOMAIN pendingRequests)
          => /\ Head(timers).id \notin DOMAIN pendingRequests'
             /\ conts'[Head(timers).call] =
                  <<[kind |-> "rejectTimeout", env |-> NoEnv]>>
     /\ \A c \in Calls :
          ( /\ callState[c] = "sent"
            /\ conts[c] = <<[kind |-> "rejectTimeout", env |-> NoEnv]>>
            /\ MessageStep
            /\ lastRx'.action = "other"
            /\ lastRx'.id = callId[c] )
          => (pendingRequests' = pendingRequests /\ conts' = conts)]_vars

\* C5 witness: a response for a request already timed out has just been
\* handled while another request is pending.
C5_Witness ==
  \E c, d \in Calls :
    /\ callState[c] = "sent"
    /\ conts[c] = <<[kind |-> "rejectTimeout", env |-> NoEnv]>>
    /\ lastRx.action = "other"
    /\ lastRx.id = callId[c]
    /\ callState[d] = "sent"
    /\ callId[d] \in DOMAIN pendingRequests

\* C6: an inbound envelope whose id has no table entry leaves the table, the
\* id counter and the connection unchanged and invokes no continuation, so
\* that the requests still pending stay pending.
C6_UnmatchedEnvelopeDropped ==
  [][(MessageStep /\ lastRx'.id \notin DOMAIN pendingRequests)
       => UNCHANGED <<pendingRequests, requestId, conts, sockState,
                      extensionSocket, timers>>]_vars

\* C6 witness: an envelope without id has just been handled while a request
\* is pending and unsettled.
C6_Witness ==
  /\ lastRx.action = "other"
  /\ lastRx.id = NoId
  /\ \E c \in Calls :
       /\ callState[c] = "sent"
       /\ callId[c] \in DOMAIN pendingRequests
       /\ conts[c] = <<>>

\* C7: a response settles the continuation registered under its own id and
\* no other, whatever the order in which responses arrive.
C7_CorrelationById ==
  \A c \in Calls : \A i \in 1..Len(conts[c]) :
    conts[c][i].kind \in {"resolve", "rejectPeer"}
      => (callState[c] = "sent" /\ conts[c][i].env.id = callId[c])

\* C7 witness: the later-sent request has been resolved while the earlier
\* one is still pending.
C7_Witness ==
  \E c, d \in Calls :
    /\ callState[c] = "sent" /\ callState[d] = "sent"
    /\ callId[c] < callId[d]
    /\ callId[c] \in DOMAIN pendingRequests /\ conts[c] = <<>>
    /\ Len(conts[d]) = 1 /\ conts[d][1].kind = "resolve"

\* C8: ids are allocated in strictly increasing order, so the table holds
\* one entry per unsettled request, each under the id of its own call, and
\* no id is given out while a request with that id is outstanding.
C8_IdsStrictlyIncreasing ==
  /\ \A c, d \in Calls :
       (callState[c] = "sent" /\ callState[d] = "sent" /\ c < d)
         => callId[c] < callId[d]
  /\ \A c \in Calls : callState[c] = "sent" => callId[c] \in 1..requestId
  /\ \A id \in DOMAIN pendingRequests : callId[pendingRequests[id]] = id
  /\ Cardinality(DOMAIN pendingRequests)
       = Cardinality({c \in Calls : callState[c] = "sent" /\ conts[c] = <<>>})

\* C8 witness: two requests are outstanding at once.
C8_Witness ==
  \E c, d \in Calls :
    /\ c # d
    /\ callId[c] \in DOMAIN pendingRequests
    /\ callId[d] \in DOMAIN pendingRequests
    /\ callId[c] # callId[d]

\* The step being taken handles a non-ping envelope whose id is call c's
\* pending id.
Answers(c) ==
  /\ MessageStep
  /\ lastRx'.action = "other"
  /\ callState[c] = "sent"
  /\ lastRx'.id = callId[c]
  /\ callId[c] \in DOMAIN pendingRequests

\* C9 as stated: an envelope with a pending id removes the entry, rejects
\* with the peer's error when it carries an `error` field and resolves
\* otherwise, and the request's timer is cancelled.
C9_AnswerSettlesAndCancelsTimer ==
  [][\A c \in Calls :
       Answers(c)
         => /\ callId[c] \notin DOMAIN pendingRequests'
            /\ Len(conts'[c]) = 1
            /\ conts'[c][1].env.id = callId[c]
            /\ conts'[c][1].kind =
                 IF conts'[c][1].env.error # "absent"
                   THEN "rejectPeer" ELSE "resolve"
            /\ \A i \in 1..Len(timers') : timers'[i].id # callId[c]]_vars

\* C9, amended: an envelope with a pending id removes the entry, rejects
\* with the peer's error when its `error` field is truthy and resolves with
\* the envelope otherwise (no `error` field, or a falsy one such as "");
\* the request's timer is not cancelled: it still fires, finds no entry and
\* changes neither the table nor any continuation.
C9_AnswerSettlesTimerIsNoOp ==
  [][/\ \A c \in Calls :
          Answers(c)
            => /\ callId[c] \notin DOMAIN pendingRequests'
               /\ Len(conts'[c]) = 1
               /\ conts'[c][1].env.id = callId[c]
               /\ conts'[c][1].kind =
                    IF conts'[c][1].env.error = "truthy"
                      THEN "rejectPeer" ELSE "resolve"
               /\ timers' = timers
               /\ ArmedFor(callId[c]) # {}
     /\ (TimerStep /\ Head(timers).id \notin DOMAIN pendingRequests)
          => UNCHANGED <<pendingRequests, conts>>]_vars

\* C9 witness: a request was resolved by an envelope whose `error` field is
\* present but empty, and its timer has fired since.
C9_Witness ==
  \E c \in Calls :
    /\ callState[c] = "sent"
    /\ Len(conts[c]) = 1
    /\ conts[c][1].kind = "resolve"
    /\ conts[c][1].env.error = "falsy"
    /\ ArmedFor(callId[c]) = {}

\* C10 as stated: an inbound ping leaves the table and the id counter
\* unchanged, invokes no continuation, and is answered by exactly one `pong`
\* envelope without id.
C10_PingAnsweredByOnePong ==
  [][(MessageStep /\ lastRx'.action = "ping")
       => /\ UNCHANGED <<pendingRequests, requestId, conts, timers>>
          /\ lastRx'.replies = <<Pong>>]_vars

\* C10, amended: an inbound ping leaves the table and the id counter
\* unchanged and invokes no continuation, even when it carries a pending id;
\* it is answered by one `pong` envelope without id when the listener's
\* current peer is open, and by nothing otherwise.
C10_PingAllocatesNothing ==
  [][(MessageStep /\ lastRx'.action = "ping")
       => /\ UNCHANGED <<pendingRequests, requestId, conts, timers>>
          /\ lastRx'.replies = IF PeerOpen THEN <<Pong>> ELSE <<>>
          /\ \A i \in 1..Len(lastRx'.replies) : lastRx'.replies[i].id = NoId]_vars

\* C10 witness: a ping carrying the id of a pending request has just been
\* answered with a pong, and the request is still pending and unsettled.
C10_Witness ==
  \E c \in Calls :
    /\ lastRx.action = "ping"
    /\ lastRx.replies = <<Pong>>
    /\ callState[c] = "sent"
    /\ lastRx.id = callId[c]
    /\ callId[c] \in DOMAIN pendingRequests
    /\ conts[c] = <<>>

\* The sockets accepted so far, and the one accepted last.
Accepted == {s \in Sockets : sockState[s] # "idle"}
LastAccepted == CHOOSE s \in Accepted : \A t \in Accepted : t <= s

\* C11: the listener has at most one authoritative peer: a socket that is
\* still open is the one extensionSocket designates (a previous open peer was
\* closed in the step that accepted the new one), and extensionSocket is the
\* most recently accepted peer or none.
C11_SingleAuthoritativePeer ==
  /\ \A s \in Sockets : sockState[s] = "open" => extensionSocket = s
  /\ Cardinality({s \in Sockets : sockState[s] = "open"}) <= 1
  /\ extensionSocket # NoSocket
       => (Accepted # {} /\ extensionSocket = LastAccepted)

\* C11 witness: a second peer was accepted while the first was open; the
\* first is being closed by the listener and the second is the current peer.
C11_Witness ==
  /\ sockState[1] = "closingLocal"
  /\ sockState[2] = "open"
  /\ extensionSocket = 2

\* The step being taken calls onConnectionChange: a peer is accepted, or the
\* 'close' handler of the current peer runs.
NotifyStep ==
  \/ \E s \in Sockets : sockState[s] = "idle" /\ sockState'[s] = "open"
  \/ \E s \in Sockets :
       /\ extensionSocket = s
       /\ sockState[s] # "closed"
       /\ sockState'[s] = "closed"

\* C12: onConnectionChange is called at most once per transition of the
\* connection state: two consecutive calls never carry the same value.
C12_NotificationsAlternate ==
  [][NotifyStep => notified' # notified]_vars

\* ---------------------------------------------------- claims on the agent

\* The WebSocket objects of the agent that are connecting, open or closing.
Live == {d \in Dials : readyState[d] \in {"connecting", "open", "closing"}}

\* C13: the dialer's reconnects never overlap: at most one reconnect timer is
\* pending, none while a socket is connecting or open, at most one socket
\* object is live, and the handle tells whether a timer is pending; a failed
\* or closed socket is followed by the next attempt as long as the peer stays
\* away (here: as long as the run has an attempt left).
C13_ReconnectsNeverOverlap ==
  /\ [](/\ timeouts <= 1
        /\ Cardinality(Live) <= 1
        /\ Live # {} => (timeouts = 0 /\ websocket \in Live)
        /\ Live = {} => (timeouts = 1 /\ websocket = NoSocket)
        /\ reconnectTimer <=> timeouts = 1)
  /\ \A d \in Dials \ {MaxDials} :
       (readyState[d] = "closed") ~> (readyState[d + 1] # "none")

\* C13 witness: the first attempt failed, the second connection opened and
\* was closed, and the timer for the third attempt is pending.
C13_Witness ==
  /\ readyState[1] = "closed"
  /\ readyState[2] = "closed"
  /\ readyState[3] = "none"
  /\ keepAliveTimer = FALSE
  /\ pings # {}
  /\ timeouts = 1

\* C14: the keep-alive interval runs only between a connection's open and
\* its close event: at most one interval timer exists, it exists exactly
\* when the agent holds a socket that has opened, none is left once the
\* close handler has run, and every ping was sent on an open socket.
C14_KeepAliveOnlyWhileConnected ==
  /\ intervals <= 1
  /\ keepAliveTimer <=> intervals = 1
  /\ intervals = 1
       <=> (websocket # NoSocket /\ readyState[websocket] \in {"open", "closing"})
  /\ pings \subseteq {"open"}

\* C14 witness: a ping was sent on the second connection, which is now
\* closing with its interval still set, the first one's having been cleared
\* when it closed.
C14_Witness ==
  /\ readyState[1] = "closed"
  /\ readyState[2] = "closing"
  /\ websocket = 2
  /\ intervals = 1
  /\ pongDue

\* C15: every response envelope handlePluginMessage gets transmitted carries
\* the id of a request the plugin sent before: none lacks an id, none carries
\* an unknown one, whatever the inbound message, the plugin's `pong` included.
C15_ResponsesCarryRequestId ==
  \A m \in responses : m.id \in {r \in Reqs : reqState[r] # "none"}

\* C17: every response of the agent, for getTabs, switchToURL, activateTab,
\* ping and an unknown action alike, carries exactly one of `result` and
\* `error`.
C17_ResultXorError ==
  \A m \in responses : Cardinality(m.fields \cap {"result", "error"}) = 1

\* ------------------------------------------------ claims on the native host

\* The step being taken is handleChromeMessage removing entry n (the sweep's
\* removals clear sweepDue).
ChromeAnswers(n) ==
  /\ n \in DOMAIN hostPending
  /\ n \notin DOMAIN hostPending'
  /\ sweepDue' = sweepDue

\* C16: the native host translates between id spaces: a client's request is
\* written to Chrome under a fresh internal id, and the answer sent back to
\* the client carries the id the client used, not the internal one.
C16_ResponseCarriesExternalId ==
  [][/\ hostRequestId' # hostRequestId
          => (hostRequestId' \notin toChrome /\ hostRequestId' \in toChrome')
     /\ \A n \in Forwards :
          ChromeAnswers(n)
            => \A m \in delivered'[hostPending[n].ws] \ delivered[hostPending[n].ws] :
                 m.id = hostPending[n].originalId]_hostVars

\* The entries of the host's table whose deadline (30 seconds after their
\* timestamp) has passed.
Expired == {n \in DOMAIN hostPending : clock - hostPending[n].timestamp > StaleAfter}

\* C18: each run of the sweep removes every entry whose deadline has passed
\* and sends the entry's client, when still connected, a timeout outcome
\* under the client's id; no entry is in the table more than one sweep
\* period after its deadline.
C18_SweepTimesOutStaleEntries ==
  /\ [][(sweepDue /\ ~sweepDue')
          => \A n \in Expired :
               /\ n \notin DOMAIN hostPending'
               /\ clientState[hostPending[n].ws] = "open"
                    => \E m \in delivered'[hostPending[n].ws] :
                         /\ m \notin delivered[hostPending[n].ws]
                         /\ m.id = hostPending[n].originalId
                         /\ m.outcome = "error"]_hostVars
  /\ [](\A n \in DOMAIN hostPending :
          clock - hostPending[n].timestamp <= StaleAfter + SweepPeriod)

\* ----------------------------------------------- claims on the URL matching

\* The loop has just compared a tab with the target.
Compared == urlPhase \in {"passed", "found"}

\* C19: normalizeURL is idempotent: normalizing a normalized URL gives it
\* back, for every input, those with a repeated protocol or `www.` prefix,
\* a `/` directly before the `#`, or several trailing slashes included.
C19_NormalizeIdempotent ==
  /\ urlPhase # "idle" => normalizeURL(normalizedTarget) = normalizedTarget
  /\ Compared => normalizeURL(normalizedTab) = normalizedTab

\* a is a prefix of b.
IsPrefix(a, b) == \E n \in 0..Len(b) : SubSeq(b, 1, n) = a

\* The normalization as the claim lists it: lowercase; strip a leading
\* http:// or https://; strip a leading www.; strip one trailing /; strip
\* the #fragment.
Listed(u) ==
  StripFragment(StripTrailingSlash(StripWww(StripProtocol(ToLowerCase(u)))))

\* The tab and the target just compared are the given pair, in either order.
ComparedPair(a, b) ==
  /\ Compared
  /\ \/ (tabUrl = a /\ targetURL = b)
     \/ (tabUrl = b /\ targetURL = a)

\* C20: a tab's URL and the target are found equivalent exactly when their
\* normalizations are identical or one is a prefix of the other; so are
\* "https://github.com/" and "github.com", and
\* "https://www.example.com/page#frag" and "example.com/page", while
\* "example.com" and "example.org" are not.
C20_EquivalentIffNormalizedPrefix ==
  /\ Compared
       => (matched <=> \/ Listed(tabUrl) = Listed(targetURL)
                       \/ IsPrefix(Listed(tabUrl), Listed(targetURL))
                       \/ IsPrefix(Listed(targetURL), Listed(tabUrl)))
  /\ ComparedPair(Https \o GithubCom \o <<"/">>, GithubCom) => matched
  /\ ComparedPair(Https \o Www \o ExampleCom \o Page \o Frag, ExampleCom \o Page)
       => matched
  /\ ComparedPair(ExampleCom, ExampleOrg) => ~matched

\* C20 witness: the tab at "https://www.example.com/page#frag" was returned
\* for the target "example.com/page".
C20_Witness ==
  /\ urlPhase = "found"
  /\ tabUrl = Https \o Www \o ExampleCom \o Page \o Frag
  /\ targetURL = ExampleCom \o Page
  /\ matched

\* The step being taken is the 'close' handler of socket s.
CloseStep(s) == sockState[s] # "closed" /\ sockState'[s] = "closed"

\* C30: the 'close' event of a socket that was replaced by a newer peer
\* neither clears extensionSocket nor notifies; the connection stays
\* reported open while the new peer is open; `false` is notified only by the
\* close of the current peer.
C30_ReplacedSocketCloseIsSilent ==
  /\ [][/\ \A s \in Sockets :
             (CloseStep(s) /\ extensionSocket # s)
               => UNCHANGED <<extensionSocket, notified>>
        /\ (notified' = "false" /\ notified # "false")
             => \E s \in Sockets : CloseStep(s) /\ extensionSocket = s]_vars
  /\ [](\A s \in Sockets :
          (sockState[s] = "open" /\ s = LastAccepted) => isConnected)

\* C30 witness: the replaced first socket has had its close event and the
\* second peer is still the open, current one, last notified as connected.
C30_Witness ==
  /\ sockState[1] = "closed"
  /\ sockState[2] = "open"
  /\ extensionSocket = 2
  /\ notified = "true"

\* --------------------------------------------------- claims on switchToURL

\* Tab i of the directory is equivalent to the target.
EquivalentAt(i) ==
  TabMatches(normalizeURL(directory[i].url), normalizeURL(swTarget))

\* findTabByURL has returned for the directory held.
Searched == swPhase \in {"acting", "sent", "dropped"}

\* C21: findTabByURL returns the first tab, in the directory's order, that
\* is equivalent to the target, whatever the kind of match of later tabs,
\* and null exactly when no tab of the directory is equivalent.
C21_FirstEquivalentTabWins ==
  Searched =>
    /\ existingTab = NoTab <=> \A i \in DOMAIN directory : ~EquivalentAt(i)
    /\ existingTab # NoTab
         => \E i \in DOMAIN directory :
              /\ directory[i] = existingTab
              /\ EquivalentAt(i)
              /\ \A j \in 1..(i - 1) : ~EquivalentAt(j)

\* C21 witness: the tab at "https://github.com/foo" stands before the tab at
\* "github.com" and was returned for the target "github.com".
C21_Witness ==
  /\ Searched
  /\ swTarget = GithubCom
  /\ Len(directory) >= 2
  /\ directory[1].id = 1
  /\ directory[2].id = 2
  /\ existingTab = directory[1]

\* Some tab of the directory is equivalent to the target.
SomeEquivalent == \E i \in DOMAIN directory : EquivalentAt(i)

\* The one collaborator call expected for the directory held.
ExpectedCall ==
  IF SomeEquivalent
    THEN [fn |-> "activateTab", tabId |-> existingTab.id,
          windowId |-> existingTab.windowId]
    ELSE [fn |-> "openURL", url |-> swTarget]

\* C22 as stated: every switchToURL request makes exactly one collaborator
\* call, activateTab with the equivalent tab's id and windowId or openURL
\* with the URL, and is answered with success true and action "activated",
\* or "opened" with the new tab's id.
C22_OneCallAndSuccess ==
  swPhase \in {"sent", "threw"} =>
    /\ collaboratorCalls = <<ExpectedCall>>
    /\ swPhase = "sent"
    /\ swSent.result.success
    /\ swSent.result.action = IF SomeEquivalent THEN "activated" ELSE "opened"
    /\ ~SomeEquivalent => swSent.result.tabId = NewTabId

\* C22, amended: once the tab query has resolved, exactly one collaborator
\* call is made, activateTab with the first equivalent tab's id and windowId
\* or openURL with the URL when no tab is equivalent; the response carries
\* action "activated" or "opened" accordingly and success true, with the new
\* tab's id when opened, if the collaborator's Chrome calls succeeded, and
\* success false with the error otherwise; when the tab query rejects, no
\* collaborator is called and no response is sent.
C22_OneCallAndItsOutcome ==
  /\ swPhase \in {"querying", "threw"}
       => (collaboratorCalls = <<>> /\ swSent = NoResponse)
  /\ Searched => collaboratorCalls = <<ExpectedCall>>
  /\ swPhase = "dropped" => swSent = NoResponse
  /\ swPhase = "sent"
       => LET result == swSent.result IN
          /\ result.action = IF SomeEquivalent THEN "activated" ELSE "opened"
          /\ result.success \in BOOLEAN
          /\ result.success <=> "error" \notin DOMAIN result
          /\ "tabId" \in DOMAIN result <=> (result.success /\ ~SomeEquivalent)
          /\ "tabId" \in DOMAIN result => result.tabId = NewTabId
          /\ SomeEquivalent => result.tab = existingTab

\* C22 witness: for "github.com", with the tab at "https://github.com/foo"
\* in second place behind a tab that is not equivalent, activateTab was
\* called for that tab and the response sent says activated, success.
C22_Witness ==
  /\ swPhase = "sent"
  /\ swTarget = GithubCom
  /\ Len(directory) >= 2
  /\ directory[1].id = 3
  /\ directory[2].id = 1
  /\ collaboratorCalls = <<[fn |-> "activateTab", tabId |-> 1, windowId |-> 1]>>
  /\ swSent.result.success
  /\ swSent.result.action = "activated"

\* The feedback events sent for key press p.
FeedbackOf(p) == presses[p].feedback

\* C23: every key press gets exactly one feedback event, sent to the context
\* that was pressed, eventually: showOk exactly when its request came back with
\* result.success true, showAlert in every other case (no URL configured, not
\* connected, timeout, error from the peer, success false or no result).
C23_EveryPressGetsItsFeedback ==
  /\ [](\A p \in Presses :
          /\ Len(FeedbackOf(p)) <= 1
          /\ presses[p].state = "done" => Len(FeedbackOf(p)) = 1
          /\ \A i \in DOMAIN FeedbackOf(p) :
               /\ FeedbackOf(p)[i].context = presses[p].context
               /\ FeedbackOf(p)[i].event =
                    IF presses[p].why = "success" THEN "showOk" ELSE "showAlert")
  /\ \A p \in Presses :
       (presses[p].state # "none") ~> (Len(FeedbackOf(p)) = 1)

\* A press on one of two shown buttons answered with showOk on the pressed
\* context after a successful switch.
C23_Witness ==
  \E p \in Presses :
    /\ activeContexts = Contexts
    /\ presses[p].why = "success"
    /\ FeedbackOf(p) = <<[event |-> "showOk", context |-> "ctxA"]>>

\* The title a button with these settings carries while connected.
TitleFromSettings(st) ==
  IF st.title # <<>> THEN st.title ELSE getURLSnippet(st.url)

\* C24: while the extension is not connected every title set on a button is
\* the disconnected indicator, whatever its settings: the disconnect
\* notification sets it on every active button, and a button that appears or
\* whose settings change gets it too; the step that connects the extension
\* again re-titles every active button from its settings.
C24_TitlesFollowConnection ==
  [][/\ extLink' # "open" =>
          \A e \in titled' : e.title = DisconnectedTitle
     /\ (extLink = "closing" /\ extLink' = "none") =>
          titled' = {[context |-> c, title |-> DisconnectedTitle] :
                       c \in activeContexts}
     /\ \A c \in Contexts :
          (\/ c \in activeContexts' \ activeContexts
           \/ /\ c \in activeContexts \cap activeContexts'
              /\ actionSettings'[c] # actionSettings[c]) =>
             \E e \in titled' : e.context = c
     /\ (extLink # "open" /\ extLink' = "open") =>
          titled' = {[context |-> c, title |-> TitleFromSettings(actionSettings[c])] :
                       c \in activeContexts}]_buttonVars

\* The disconnect notification has just put the indicator on both buttons,
\* one of which has a configured title.
C24_Witness ==
  /\ extLink = "none"
  /\ activeContexts = Contexts
  /\ actionSettings["ctxA"].title = Hub
  /\ titled = {[context |-> c, title |-> DisconnectedTitle] : c \in Contexts}

\* The URL with its protocol and leading www. removed, up to the first slash.
HostPart(url) == BeforeFirstSlash(StripWww(StripProtocol(url)))

\* C25: a title set while connected is the configured title if there is one,
\* else the URL's host part, cut to its first 10 characters plus an ellipsis
\* exactly when it is longer than 12 (11 and 12 characters stay whole); a
\* title set while not connected is the indicator.
C25_TitleIsSnippetOrConfigured ==
  /\ \A e \in titled :
       LET st == actionSettings[e.context]
           host == HostPart(st.url) IN
       IF extLink # "open" THEN e.title = DisconnectedTitle
       ELSE IF st.title # <<>> THEN e.title = st.title
       ELSE IF Len(host) > 12 THEN e.title = SubSeq(host, 1, 10) \o <<Ellipsis>>
       ELSE e.title = host
  /\ getURLSnippet(Https \o Www \o VeryLongDomainCom \o <<"/", "x">>) =
       <<"v", "e", "r", "y", "l", "o", "n", "g", "d", "o", Ellipsis>>
  /\ getURLSnippet(Http \o Twelve \o Page) = Twelve
  /\ getURLSnippet(Www \o Eleven \o <<"/">>) = Eleven
  /\ getURLSnippet(Thirteen) =
       <<"a", "b", "c", "d", "e", "f", "g", "h", "i", ".", Ellipsis>>

\* On connection one button got the truncated snippet and the other a host of
\* 12 characters whole.
C25_Witness ==
  /\ extLink = "open"
  /\ titled =
       {[context |-> "ctxA",
         title |-> <<"v", "e", "r", "y", "l", "o", "n", "g", "d", "o", Ellipsis>>],
        [context |-> "ctxB", title |-> Twelve]}

\* The bytes given to the stdin handler so far, the end of the k-th frame in
\* the stream, and the number of frames wholly given.
Delivered == Len(Frames(texts)) - Len(wire)
FrameEnd(k) == Len(Frames(SubSeq(texts, 1, k)))
Complete == Cardinality({k \in DOMAIN texts : FrameEnd(k) <= Delivered})

\* C26: however the bytes of well-formed frames are cut into chunks, the
\* messages handled are those of the frames wholly received, each once and in
\* order, and inputBuffer holds exactly the bytes of the frame still
\* incomplete.
C26_DecodingIgnoresChunking ==
  (\A i \in DOMAIN texts : JSONvalid(texts[i])) =>
    /\ handled = [i \in 1..Complete |-> JSONparse(texts[i])]
    /\ inputBuffer = SubSeq(Frames(texts), FrameEnd(Complete) + 1, Delivered)
    /\ ~uncaught

\* The first of two well-formed frames has been handled and the chunk ended
\* two bytes into the header of the second, whose text is not ASCII.
C26_Witness ==
  /\ Len(texts) = 2
  /\ \A i \in DOMAIN texts : JSONvalid(texts[i])
  /\ texts[2] = JSONstringify([t |-> <<233>>])
  /\ Len(handled) = 1
  /\ Len(inputBuffer) = 2

\* C27: the frame writeNativeMessage writes has the body's UTF-8 byte count as
\* header and the whole body after it, so that readNativeMessage gives back the
\* message and takes 4 + that many bytes; also for texts that are not ASCII.
C27_WriteReadRoundTrip ==
  stdout # <<>> =>
    LET body == Utf8Text(JSONstringify(written))
        result == readNativeMessage(stdout) IN
    /\ ReadUInt32LE(stdout) = Len(body)
    /\ SubSeq(stdout, 5, Len(stdout)) = body
    /\ result.kind = "message"
    /\ result.message = written
    /\ result.bytesRead = 4 + Len(body)

\* The well-formed messages among the texts sent, in order.
WellFormedMessages ==
  LET good == SelectSeq(texts, JSONvalid) IN
  [i \in DOMAIN good |-> JSONparse(good[i])]

\* C28: a complete inbound message that is not valid JSON is dropped on its
\* own: once everything sent has arrived, the well-formed messages have all
\* been handled, in order, and nothing is left in the buffer; on the host's
\* stdin stream and on the plugin's socket alike.
C28_MalformedMessageDroppedAlone ==
  /\ wire = <<>> => handled = WellFormedMessages /\ inputBuffer = <<>>
  /\ wsNext > Len(texts) => wsHandled = WellFormedMessages

\* C29: no listener process goes on running with a server whose bind failed:
\* the failure is logged and ends the process, so the plugin in particular is
\* never running with started set and a server that does not listen.
C29_BindFailureIsFatal ==
  \A p \in Procs :
    /\ procPhase[p] # "failed"
    /\ (procLog[p] # <<>> /\ procLog[p][Len(procLog[p])] = "server error") =>
         procPhase[p] = "off"
    /\ (p = "plugin" /\ started /\ procPhase[p] # "off") =>
         procPhase[p] \in {"binding", "listening"}

\* C31: a keep-alive ping causes at most three envelopes, in this order: the
\* ping, the plugin's pong, and the agent's response to the pong, which has no
\* action and no id; the plugin drops it, and no request is resolved or
\* rejected by an envelope of the exchange.
C31_KeepAliveExchangeTerminates ==
  /\ \A k \in Pings :
       /\ Len(caused[k]) <= 3
       /\ \A i \in DOMAIN caused[k] : caused[k][i] = <<"ping", "pong", "none">>[i]
  /\ \A e \in wireSettled : e.origin = 0
  /\ \A i \in DOMAIN toPlugin :
       toPlugin[i].origin \in Pings /\ toPlugin[i].action # "ping" =>
         toPlugin[i].id = NoId

\* Both exchanges have run to their end while a request was pending: three
\* envelopes each, nothing of them in flight, the request still pending.
C31_Witness ==
  /\ \A k \in Pings : caused[k] = <<"ping", "pong", "none">>
  /\ toPlugin = <<>>
  /\ toAgent = <<>>
  /\ wirePending # {}
  /\ wireSettled = {}

\* The table entries the step removes on a message from Chrome (the sweep,
\* which removes entries too, is the step that clears sweepDue).
Answered ==
  IF sweepDue' = sweepDue THEN (DOMAIN hostPending) \ (DOMAIN hostPending') ELSE {}

\* C32: a response is sent only in a step that removes the table entry of its
\* request, only to the client that entry names, and only if that client is
\* open; when the client has closed the entry is removed all the same and
\* nothing is sent to anyone.
C32_ResponseOnlyToItsClient ==
  [][/\ \A c \in Clients :
          delivered'[c] # delivered[c] =>
            /\ clientState[c] = "open"
            /\ \E id \in Answered : hostPending[id].ws = c
            /\ Cardinality(delivered'[c] \ delivered[c]) = 1
     /\ \A id \in Answered :
          /\ Answered = {id}
          /\ \A c \in Clients : c # hostPending[id].ws => delivered'[c] = delivered[c]
          /\ IF clientState[hostPending[id].ws] = "open"
               THEN delivered'[hostPending[id].ws] # delivered[hostPending[id].ws]
               ELSE delivered' = delivered]_hostVars

\* Two requests were forwarded and answered before any sweep; the first
\* client had closed, so its response was dropped, and the second client,
\* still open, got exactly its own.
C32_Witness ==
  /\ clock = 0
  /\ toChrome = {1, 2}
  /\ hostPending = <<>>
  /\ clientState = <<"closed", "open">>
  /\ delivered[1] = {}
  /\ Cardinality(delivered[2]) = 1

\* The normalized URLs at hand: those of the directory's tabs and the target.
NormalizedAtHand ==
  {normalizeURL(directory[i].url) : i \in DOMAIN directory}
    \cup {normalizeURL(swTarget)}

============================================================================
